---- MODULE Spec2Model ----
(***************************************************************************)
(* Teams, hashes and the summary / lot calculation of the crypto finance   *)
(* application.  The store holds teams (two lot prices each) and hashes    *)
(* (a currency-tagged token deposit of one team).  The backend answers     *)
(* GET /api/teams/{id}/summary and GET /api/teams/summary by reading the   *)
(* team and its hashes and computing a Summary.  Amounts, rates and prices *)
(* are exact decimals, counted here in whole units.  response is the       *)
(* answer to the latest request.  The other variables are the clients of   *)
(* the backend: the state of the React views (TeamDetail, Calculations,    *)
(* TeamForm, HashForm, Teams), a summary request in progress, the listing  *)
(* of the two server versions, and the SQL database of the migration.      *)
(***************************************************************************)
EXTENDS Integers, Sequences, FiniteSets, TLC

\* ------------------------------------------------------------------ bounds
MaxPrice == 2
MaxAmount == 2
MaxRate == 2
MaxHashes == 2

TeamIds == {"t1", "t2"}
Prices == 0..MaxPrice
Amounts == 1..MaxAmount
Rates == 1..MaxRate
Currencies == {"RUB", "USDT"}

\* exchange_rate of a USDT hash: null
NoRate == 0

VARIABLES teams, hashes, response, issued,
          detail, calc, teamForm, hashForm, teamsView, reader, listing, sql

vars == <<teams, hashes, response, issued,
          detail, calc, teamForm, hashForm, teamsView, reader, listing, sql>>

\* The views of the frontend, and the other clients of the store.
viewVars == <<detail, calc, teamForm, hashForm, teamsView>>
sideVars == <<reader, listing, sql>>

\* ------------------------------------------------------------------ data
\* A hash as the hash form / API writes it: exchange_rate only for RUB.
HashRecord(t, cur, amt, rate) ==
  [team_id |-> t, token_amount |-> amt, currency |-> cur,
   exchange_rate |-> IF cur = "RUB" THEN rate ELSE NoRate]

TeamRecord(rp, up) == [rub_price_per_lot |-> rp, usdt_price_per_lot |-> up]

\* ------------------------------------------------------------------ engine
\* Sums the token amounts of the RUB hashes without applying the rate.
RECURSIVE RubTokensNoRate(_)
RubTokensNoRate(hs) ==
  IF hs = <<>> THEN 0
  ELSE (IF Head(hs).currency = "RUB" THEN Head(hs).token_amount ELSE 0)
       + RubTokensNoRate(Tail(hs))

\* Adds up the RUB amounts and converts the total at the rate of the first
\* RUB hash read.
RubTokensFirstRate(hs) ==
  LET rub == SelectSeq(hs, LAMBDA h : h.currency = "RUB")
  IN IF rub = <<>> THEN 0 ELSE RubTokensNoRate(rub) * rub[1].exchange_rate

\* Токены RUB = Сумма (количество токенов × курс) для всех хэшей RUB
RECURSIVE RubTokens(_)
RubTokens(hs) ==
  IF hs = <<>> THEN 0
  ELSE (IF Head(hs).currency = "RUB"
          THEN Head(hs).token_amount * Head(hs).exchange_rate
          ELSE 0) + RubTokens(Tail(hs))

\* Sums the token amounts of all hashes, whatever their currency.
RECURSIVE UsdtTokensAnyCurrency(_)
UsdtTokensAnyCurrency(hs) ==
  IF hs = <<>> THEN 0
  ELSE Head(hs).token_amount + UsdtTokensAnyCurrency(Tail(hs))

\* Токены USDT = Сумма количества токенов для всех хэшей USDT
RECURSIVE UsdtTokens(_)
UsdtTokens(hs) ==
  IF hs = <<>> THEN 0
  ELSE (IF Head(hs).currency = "USDT" THEN Head(hs).token_amount ELSE 0)
       + UsdtTokens(Tail(hs))

RECURSIVE Gcd(_, _)
Gcd(a, b) == IF b = 0 THEN a ELSE Gcd(b, a % b)

\* The value of a quotient: a fraction in lowest terms (0 is 0/1).
Quotient(n, d) == [num |-> n \div Gcd(n, d), den |-> d \div Gcd(n, d)]

RawZero == [num |-> 0, den |-> 1]

\* A zero price is taken as one (the guard is missing its default).
LotsRawUnitPrice(tokens, price) ==
  IF price > 0 THEN Quotient(tokens, price) ELSE Quotient(tokens, 1)

\* lots_raw = tokens / price_per_lot; 0 when the price is zero.
LotsRaw(tokens, price) ==
  IF price > 0 THEN Quotient(tokens, price) ELSE RawZero

\* Rounds to the nearest whole lot instead of down.
LotsRounded(raw) == (2 * raw.num + raw.den) \div (2 * raw.den)

\* Лоты = Целая часть (Токены ÷ Цена за лот)
Lots(raw) == raw.num \div raw.den

\* Floors the sum of the two raw values instead of adding the floors.
TotalLotsOfRawSum(rubRaw, usdtRaw) ==
  (rubRaw.num * usdtRaw.den + usdtRaw.num * rubRaw.den)
    \div (rubRaw.den * usdtRaw.den)

\* Всего лотов = Лоты RUB + Лоты USDT
TotalLots(rubRaw, usdtRaw) == Lots(rubRaw) + Lots(usdtRaw)

\* Subtracts the lot count itself, not its price.
RemainderOfLotsOnly(tokens, lots, price) == tokens - lots

\* Остаток = Токены - (Лоты × Цена за лот)
Remainder(tokens, lots, price) == tokens - lots * price

\* Returns the remainder instead of what is missing to the next lot.
NeededIsRemainder(price, remainder) ==
  IF remainder > 0 THEN remainder ELSE 0

\* Drops the "if the remainder is positive" condition.
NeededUnconditional(price, remainder) == price - remainder

\* Нужно для лота = Цена за лот - Остаток (если остаток > 0), иначе 0
NeededForNextLot(price, remainder) ==
  IF remainder > 0 THEN price - remainder ELSE 0

\* The summary of team t (record team) over the hashes hs, in the order read.
Summary(t, team, hs) ==
  LET rub_tokens == RubTokens(hs)
      usdt_tokens == UsdtTokens(hs)
      rub_raw == LotsRaw(rub_tokens, team.rub_price_per_lot)
      usdt_raw == LotsRaw(usdt_tokens, team.usdt_price_per_lot)
      rub_rem == Remainder(rub_tokens, Lots(rub_raw), team.rub_price_per_lot)
      usdt_rem == Remainder(usdt_tokens, Lots(usdt_raw), team.usdt_price_per_lot)
  IN [team_id |-> t,
      rub_tokens |-> rub_tokens,
      usdt_tokens |-> usdt_tokens,
      rub_lots |-> Lots(rub_raw),
      usdt_lots |-> Lots(usdt_raw),
      rub_lots_raw |-> rub_raw,
      usdt_lots_raw |-> usdt_raw,
      total_lots |-> TotalLots(rub_raw, usdt_raw),
      rub_remainder |-> rub_rem,
      usdt_remainder |-> usdt_rem,
      rub_needed_for_next_lot |->
        NeededForNextLot(team.rub_price_per_lot, rub_rem),
      usdt_needed_for_next_lot |->
        NeededForNextLot(team.usdt_price_per_lot, usdt_rem)]

\* ------------------------------------------------------------------ repositories
\* Ids of the hashes whose team_id is t.
HashIdsOf(t) == {h \in DOMAIN hashes : hashes[h].team_id = t}

\* Every order in which the ids of S can be listed.
RECURSIVE Orderings(_)
Orderings(S) ==
  IF S = {} THEN {<<>>}
  ELSE UNION {{<<x>> \o o : o \in Orderings(S \ {x})} : x \in S}

\* The ids of S in increasing order.
RECURSIVE SortedIds(_)
SortedIds(S) ==
  IF S = {} THEN <<>>
  ELSE LET m == CHOOSE x \in S : \A y \in S : x <= y
       IN <<m>> \o SortedIds(S \ {m})

\* Lists the team's hashes but misses the one stored last.
ListHashesBeforeLast(t) ==
  LET ids == SortedIds(HashIdsOf(t))
  IN [i \in 1..(Len(ids) - 1) |-> hashes[ids[i]]]

\* listHashes(teamId): the team's hashes as the store lists them, by id.
ListHashes(t) ==
  LET ids == SortedIds(HashIdsOf(t))
  IN [i \in DOMAIN ids |-> hashes[ids[i]]]

\* listHashes(teamId) on the hash store given (the store before or after a
\* write).
ListHashesIn(store, t) ==
  LET ids == SortedIds({h \in DOMAIN store : store[h].team_id = t})
  IN [i \in DOMAIN ids |-> store[ids[i]]]

\* ------------------------------------------------------------------ responses
NoResponse == [op |-> "none", team_id |-> "", status |-> "ok", body |-> <<>>]

NotFound(t) == [op |-> "summary", team_id |-> t, status |-> "NotFound", body |-> <<>>]

SummaryResponse(t, s) ==
  [op |-> "summary", team_id |-> t, status |-> "ok", body |-> <<s>>]

SummariesResponse(ss) ==
  [op |-> "summaries", team_id |-> "", status |-> "ok", body |-> ss]

\* The answer to a create, update or delete request.
WriteResponse(status) ==
  [op |-> "write", team_id |-> "", status |-> status, body |-> <<>>]

\* ------------------------------------------------------------------ clients at rest
\* No view is mounted, no summary request is in progress, nothing was listed
\* and the SQL database of the migration is empty.
NoView == [pc |-> "unmounted"]
NoReader == [pc |-> "idle"]
NoListing == [pc |-> "none"]
NoSql == [pc |-> "none"]

NoClients ==
  /\ detail = NoView /\ calc = NoView /\ teamForm = NoView /\ hashForm = NoView
  /\ teamsView = NoView
  /\ reader = NoReader /\ listing = NoListing /\ sql = NoSql

\* ------------------------------------------------------------------ stores
HashRecords ==
  {HashRecord(t, cur, amt, rate) :
     t \in TeamIds, cur \in Currencies, amt \in Amounts, rate \in Rates}

\* A key that orders the hash records (team, currency, amount, rate).
HashKey(h) ==
  ((((IF h.team_id = "t1" THEN 0 ELSE 1) * 2
      + (IF h.currency = "RUB" THEN 0 ELSE 1)) * (MaxAmount + 1)
     + h.token_amount) * (MaxRate + 1)) + h.exchange_rate

\* The teams a run starts from: any of the team ids, one price pair per run.
TeamStores ==
  UNION {[S -> {TeamRecord(rp, up)}] :
           S \in SUBSET TeamIds, rp \in Prices, up \in Prices}

\* The hashes a run starts from.  Hash ids are opaque, so of the stores that
\* differ only by a renaming of the hash ids one is kept: ids 1..k, the
\* records in key order.
HashStores ==
  {hs \in UNION {[1..k -> HashRecords] : k \in 0..MaxHashes} :
     \A h \in DOMAIN hs :
       h + 1 \in DOMAIN hs => HashKey(hs[h]) <= HashKey(hs[h + 1])}

\* ------------------------------------------------------------------ actions
\* Any stored teams, and any stored hashes that reference them; no request
\* answered yet.
Init ==
  /\ teams \in TeamStores
  /\ hashes \in HashStores
  /\ \A h \in DOMAIN hashes : hashes[h].team_id \in DOMAIN teams
  /\ response = NoResponse
  /\ issued = [teams |-> DOMAIN teams, hashes |-> DOMAIN hashes]
  /\ NoClients

\* The handler also removes the hashes it has counted.
GetTeamSummaryConsuming(t) ==
  /\ t \in DOMAIN teams
  /\ response' = SummaryResponse(t, Summary(t, teams[t], ListHashes(t)))
  /\ hashes' = [h \in DOMAIN hashes \ HashIdsOf(t) |-> hashes[h]]
  /\ UNCHANGED <<teams, issued, viewVars, sideVars>>

\* The answer to a summary request for team t: getTeam(t), then the engine
\* on listHashes(t).
SummaryAnswer(t) ==
  IF t \in DOMAIN teams
    THEN SummaryResponse(t, Summary(t, teams[t], ListHashes(t)))
    ELSE NotFound(t)

\* GET /api/teams/{id}/summary
GetTeamSummary(t) ==
  /\ response' = SummaryAnswer(t)
  /\ UNCHANGED <<teams, hashes, issued, viewVars, sideVars>>

\* The answers to a fleet-wide summary request: one summary per team, in an
\* order the store chooses.
SummariesAnswers ==
  {SummariesResponse([i \in DOMAIN to |->
                        Summary(to[i], teams[to[i]], ListHashes(to[i]))]) :
     to \in Orderings(DOMAIN teams)}

\* GET /api/teams/summary
GetAllSummaries ==
  /\ \E r \in SummariesAnswers : response' = r
  /\ UNCHANGED <<teams, hashes, issued, viewVars, sideVars>>

Next ==
  \/ \E t \in TeamIds : GetTeamSummary(t)
  \/ GetAllSummaries

Spec == Init /\ [][Next]_vars

\* ------------------------------------------------------------------ writes
\* The values the write requests of SpecStore carry.
StorePrices == {1, MaxPrice}
StoreAmounts == {1, MaxAmount}
StoreRates == {MaxRate}

\* Ids are uuid4 values: a new record gets an id never issued before.  Hash
\* ids are opaque, so the next one is taken.
FreshHashId(h) ==
  /\ h \in 1..MaxHashes
  /\ h \notin issued.hashes
  /\ \A g \in 1..MaxHashes : g < h => g \in issued.hashes

\* What a summary request in progress has to be compared with: the summaries
\* of the states its team goes through while the request lasts.  A write
\* adds the summary of the state it leaves (a history of the store, kept
\* with the request; no request in progress, nothing kept).
Meanwhile ==
  IF reader.pc = "team read" /\ reader.team_id \in DOMAIN teams'
    THEN [reader EXCEPT !.seen =
            @ \cup {Summary(reader.team_id, teams'[reader.team_id],
                             ListHashesIn(hashes', reader.team_id))}]
    ELSE reader

\* POST /api/teams
CreateTeam(t, rp, up) ==
  /\ t \notin issued.teams
  /\ teams' = [x \in DOMAIN teams \cup {t} |->
                 IF x = t THEN TeamRecord(rp, up) ELSE teams[x]]
  /\ issued' = [issued EXCEPT !.teams = @ \cup {t}]
  /\ response' = WriteResponse("ok")
  /\ UNCHANGED <<hashes, viewVars, listing, sql>>
  /\ reader' = Meanwhile

\* PUT /api/teams/{id}
UpdateTeam(t, rp, up) ==
  /\ IF t \in DOMAIN teams
       THEN /\ teams' = [teams EXCEPT ![t] = TeamRecord(rp, up)]
            /\ response' = WriteResponse("ok")
       ELSE /\ teams' = teams
            /\ response' = WriteResponse("NotFound")
  /\ UNCHANGED <<hashes, issued, viewVars, listing, sql>>
  /\ reader' = Meanwhile

\* Deletes the team and leaves its hashes in the store.
DeleteTeamKeepHashes(t) ==
  /\ t \in DOMAIN teams
  /\ teams' = [x \in DOMAIN teams \ {t} |-> teams[x]]
  /\ response' = WriteResponse("ok")
  /\ UNCHANGED <<hashes, issued, viewVars, listing, sql>>
  /\ reader' = Meanwhile

\* DELETE /api/teams/{id}: the team and, by cascade, all its hashes.
DeleteTeam(t) ==
  /\ IF t \in DOMAIN teams
       THEN /\ teams' = [x \in DOMAIN teams \ {t} |-> teams[x]]
            /\ hashes' = [h \in DOMAIN hashes \ HashIdsOf(t) |-> hashes[h]]
            /\ response' = WriteResponse("ok")
       ELSE /\ UNCHANGED <<teams, hashes>>
            /\ response' = WriteResponse("NotFound")
  /\ UNCHANGED <<issued, viewVars, listing, sql>>
  /\ reader' = Meanwhile

\* Stores the new hash under the lowest id, taken or not.
CreateHashLowestId(h, t, cur, amt, rate) ==
  /\ h = 1
  /\ IF t \in DOMAIN teams
       THEN /\ hashes' = [x \in DOMAIN hashes \cup {h} |->
                            IF x = h THEN HashRecord(t, cur, amt, rate)
                            ELSE hashes[x]]
            /\ issued' = [issued EXCEPT !.hashes = @ \cup {h}]
            /\ response' = WriteResponse("ok")
       ELSE /\ UNCHANGED <<hashes, issued>>
            /\ response' = WriteResponse("NotFound")
  /\ UNCHANGED <<teams, viewVars, listing, sql>>
  /\ reader' = Meanwhile

\* POST /api/hashes
CreateHash(h, t, cur, amt, rate) ==
  /\ FreshHashId(h)
  /\ IF t \in DOMAIN teams
       THEN /\ hashes' = [x \in DOMAIN hashes \cup {h} |->
                            IF x = h THEN HashRecord(t, cur, amt, rate)
                            ELSE hashes[x]]
            /\ issued' = [issued EXCEPT !.hashes = @ \cup {h}]
            /\ response' = WriteResponse("ok")
       ELSE /\ UNCHANGED <<hashes, issued>>
            /\ response' = WriteResponse("NotFound")
  /\ UNCHANGED <<teams, viewVars, listing, sql>>
  /\ reader' = Meanwhile

\* PUT /api/hashes/{id}
UpdateHash(h, t, cur, amt, rate) ==
  /\ IF h \in DOMAIN hashes /\ t \in DOMAIN teams
       THEN /\ hashes' = [hashes EXCEPT ![h] = HashRecord(t, cur, amt, rate)]
            /\ response' = WriteResponse("ok")
       ELSE /\ hashes' = hashes
            /\ response' = WriteResponse("NotFound")
  /\ UNCHANGED <<teams, issued, viewVars, listing, sql>>
  /\ reader' = Meanwhile

\* DELETE /api/hashes/{id}
DeleteHash(h) ==
  /\ IF h \in DOMAIN hashes
       THEN /\ hashes' = [x \in DOMAIN hashes \ {h} |-> hashes[x]]
            /\ response' = WriteResponse("ok")
       ELSE /\ hashes' = hashes
            /\ response' = WriteResponse("NotFound")
  /\ UNCHANGED <<teams, issued, viewVars, listing, sql>>
  /\ reader' = Meanwhile

\* An empty database.
InitStore ==
  /\ teams = <<>>
  /\ hashes = <<>>
  /\ response = NoResponse
  /\ issued = [teams |-> {}, hashes |-> {}]
  /\ NoClients

NextStore ==
  \/ \E t \in TeamIds, rp \in StorePrices, up \in StorePrices : CreateTeam(t, rp, up)
  \/ \E t \in TeamIds, rp \in StorePrices, up \in StorePrices : UpdateTeam(t, rp, up)
  \/ \E t \in TeamIds : DeleteTeam(t)
  \/ \E h \in 1..MaxHashes, t \in TeamIds, cur \in Currencies,
        amt \in StoreAmounts, rate \in StoreRates : CreateHash(h, t, cur, amt, rate)
  \/ \E h \in 1..MaxHashes, t \in TeamIds, cur \in Currencies,
        amt \in StoreAmounts, rate \in StoreRates : UpdateHash(h, t, cur, amt, rate)
  \/ \E h \in 1..MaxHashes : DeleteHash(h)
  \/ \E t \in TeamIds : GetTeamSummary(t)
  \/ GetAllSummaries

\* The store under create, update and delete requests and summary requests,
\* one request at a time.
SpecStore == InitStore /\ [][NextStore]_vars

\* ------------------------------------------------------------------ summary request in two reads
\* The summary request starts: getTeam(t).  For a stored team the request
\* goes on with the team it has read and has no answer yet; first is the
\* summary of the state the request starts in.
BeginSummary(t) ==
  /\ reader.pc \in {"idle", "answered"}
  /\ IF t \in DOMAIN teams
       THEN /\ reader' = [pc |-> "team read", team_id |-> t, team |-> teams[t],
                          first |-> Summary(t, teams[t], ListHashes(t)),
                          seen |-> {Summary(t, teams[t], ListHashes(t))}]
            /\ response' = NoResponse
       ELSE /\ reader' = NoReader
            /\ response' = NotFound(t)
  /\ UNCHANGED <<teams, hashes, issued, viewVars, listing, sql>>

\* The request answered: the history is not needed any more.
Answered == [pc |-> "answered", team_id |-> reader.team_id,
             team |-> reader.team, first |-> reader.first]

\* Reports the USDT tokens of the state the request started in next to the
\* rest of the summary of the current one.
FinishSummaryMixed ==
  /\ reader.pc = "team read"
  /\ response' =
       SummaryResponse(reader.team_id,
                       [Summary(reader.team_id, reader.team,
                                ListHashes(reader.team_id))
                          EXCEPT !.usdt_tokens = reader.first.usdt_tokens])
  /\ reader' = Answered
  /\ UNCHANGED <<teams, hashes, issued, viewVars, listing, sql>>

\* The summary request ends: listHashes(t), one read of the store, and the
\* engine on the team read before and these hashes.
FinishSummary ==
  /\ reader.pc = "team read"
  /\ response' =
       SummaryResponse(reader.team_id,
                       Summary(reader.team_id, reader.team,
                               ListHashes(reader.team_id)))
  /\ reader' = Answered
  /\ UNCHANGED <<teams, hashes, issued, viewVars, listing, sql>>

\* One stored team without hashes; no request in progress.
InitConcurrent ==
  /\ teams \in {[t \in {"t1"} |-> TeamRecord(rp, up)] :
                  rp \in StorePrices, up \in StorePrices}
  /\ hashes = <<>>
  /\ response = NoResponse
  /\ issued = [teams |-> DOMAIN teams, hashes |-> {}]
  /\ NoClients

\* The writes followed while one request is in progress.
MaxSeen == 3

MayWrite == reader.pc = "team read" => Cardinality(reader.seen) < MaxSeen

\* A summary request in two reads, and the write requests of other clients
\* between them.
NextConcurrent ==
  \/ \E t \in TeamIds : BeginSummary(t)
  \/ FinishSummary
  \/ \E t \in TeamIds, rp \in StorePrices, up \in StorePrices : MayWrite /\ UpdateTeam(t, rp, up)
  \/ \E t \in TeamIds : MayWrite /\ DeleteTeam(t)
  \/ \E h \in 1..MaxHashes, t \in TeamIds, cur \in Currencies,
        amt \in StoreAmounts, rate \in StoreRates : MayWrite /\ CreateHash(h, t, cur, amt, rate)
  \/ \E h \in 1..MaxHashes, t \in TeamIds, cur \in Currencies,
        amt \in StoreAmounts, rate \in StoreRates : MayWrite /\ UpdateHash(h, t, cur, amt, rate)
  \/ \E h \in 1..MaxHashes : MayWrite /\ DeleteHash(h)

SpecConcurrent == InitConcurrent /\ [][NextConcurrent]_vars

\* ------------------------------------------------------------------ TeamDetail
\* The outcome of an HTTP request on the network: the answer arrives, the
\* request never reaches the server, or the server handles it and the answer
\* is lost.  In the last two cases the axios promise rejects.
Delivered == "delivered"
Unreachable == "unreachable"
AnswerLost == "answer lost"

\* error = null
NoError == ""
LoadError == "could not load the team data"
\* alert("Не удалось удалить хэш.")
DeleteAlert == "could not delete the hash"

\* GET /api/hashes?team_id=: the hashes of the team with their ids.
HashesAnswer(t) ==
  LET ids == SortedIds(HashIdsOf(t))
  IN [i \in DOMAIN ids |-> [id |-> ids[i], hash |-> hashes[ids[i]]]]

\* useState of TeamDetail; the effect on [id] then calls fetchTeamData,
\* which sets loading and requests the team.
DetailMount(id) ==
  /\ detail.pc = "unmounted"
  /\ detail' = [pc |-> "team", id |-> id, team |-> <<>>, hashes |-> <<>>,
                summary |-> <<>>, loading |-> TRUE, error |-> NoError,
                alert |-> NoError, deleting |-> 0]
  /\ UNCHANGED <<teams, hashes, response, issued, calc, teamForm, hashForm, teamsView, sideVars>>

\* The route changes to another team id: the component keeps its state and
\* the effect on [id] calls fetchTeamData again.
DetailNavigate(id) ==
  /\ detail.pc = "idle"
  /\ id # detail.id
  /\ detail' = [detail EXCEPT !.pc = "team", !.id = id, !.loading = TRUE]
  /\ UNCHANGED <<teams, hashes, response, issued, calc, teamForm, hashForm, teamsView, sideVars>>

\* catch and finally of fetchTeamData
DetailLoadFailed == [detail EXCEPT !.pc = "idle", !.error = LoadError, !.loading = FALSE]

\* fetchTeamData: the answer to GET /api/teams/{id}
DetailTeamAnswer(net) ==
  /\ detail.pc = "team"
  /\ IF net = Delivered /\ detail.id \in DOMAIN teams
       THEN detail' = [detail EXCEPT !.pc = "hashes", !.team = <<teams[detail.id]>>]
       ELSE detail' = DetailLoadFailed
  /\ UNCHANGED <<teams, hashes, response, issued, calc, teamForm, hashForm, teamsView, sideVars>>

\* fetchTeamData: the answer to GET /api/hashes?team_id=
DetailHashesAnswer(net) ==
  /\ detail.pc = "hashes"
  /\ IF net = Delivered
       THEN detail' = [detail EXCEPT !.pc = "summary", !.hashes = HashesAnswer(detail.id)]
       ELSE detail' = DetailLoadFailed
  /\ UNCHANGED <<teams, hashes, response, issued, calc, teamForm, hashForm, teamsView, sideVars>>

\* fetchTeamData: the answer to GET /api/teams/{id}/summary
DetailSummaryAnswer(net) ==
  /\ detail.pc = "summary"
  /\ IF net = Delivered /\ SummaryAnswer(detail.id).status = "ok"
       THEN detail' = [detail EXCEPT !.pc = "idle",
                                     !.summary = SummaryAnswer(detail.id).body,
                                     !.error = NoError, !.loading = FALSE]
       ELSE detail' = DetailLoadFailed
  /\ UNCHANGED <<teams, hashes, response, issued, calc, teamForm, hashForm, teamsView, sideVars>>

\* What TeamDetail renders.
DetailShows ==
  IF detail.pc = "unmounted" THEN "nothing"
  ELSE IF detail.loading THEN "spinner"
  ELSE IF detail.error # NoError THEN "error"
  ELSE IF detail.team = <<>> THEN "team not found"
  ELSE "page"

\* The summary panel is part of the page: {summary && (...)}
DetailShowsSummaryPanel == DetailShows = "page" /\ detail.summary # <<>>

\* handleDeleteHash on a displayed hash, the user confirming: requests the
\* delete.
DetailDeleteHash(h) ==
  /\ detail.pc = "idle"
  /\ DetailShows = "page"
  /\ \E i \in DOMAIN detail.hashes : detail.hashes[i].id = h
  /\ detail' = [detail EXCEPT !.pc = "delete", !.deleting = h, !.alert = NoError]
  /\ UNCHANGED <<teams, hashes, response, issued, calc, teamForm, hashForm, teamsView, sideVars>>

\* catch of handleDeleteHash
DetailDeleteFailed == [detail EXCEPT !.pc = "idle", !.alert = DeleteAlert, !.deleting = 0]

\* handleDeleteHash: the answer to DELETE /api/hashes/{hashId}
DetailDeleteAnswer(net) ==
  /\ detail.pc = "delete"
  /\ IF net # Unreachable /\ detail.deleting \in DOMAIN hashes
       THEN hashes' = [x \in DOMAIN hashes \ {detail.deleting} |-> hashes[x]]
       ELSE hashes' = hashes
  /\ IF net = Delivered /\ detail.deleting \in DOMAIN hashes
       THEN detail' = [detail EXCEPT
                         !.pc = "refresh",
                         !.hashes = SelectSeq(detail.hashes,
                                              LAMBDA x : x.id # detail.deleting)]
       ELSE detail' = DetailDeleteFailed
  /\ UNCHANGED <<teams, response, issued, calc, teamForm, hashForm, teamsView, sideVars>>

\* handleDeleteHash: the answer to the summary request that refreshes the
\* panel.
DetailRefreshAnswer(net) ==
  /\ detail.pc = "refresh"
  /\ IF net = Delivered /\ SummaryAnswer(detail.id).status = "ok"
       THEN detail' = [detail EXCEPT !.pc = "idle",
                                     !.summary = SummaryAnswer(detail.id).body,
                                     !.deleting = 0]
       ELSE detail' = DetailDeleteFailed
  /\ UNCHANGED <<teams, hashes, response, issued, calc, teamForm, hashForm, teamsView, sideVars>>

\* The hash records the stores of the view specifications start from.
StoreHashRecords ==
  {HashRecord(t, cur, amt, rate) :
     t \in TeamIds, cur \in Currencies, amt \in StoreAmounts, rate \in StoreRates}

\* Any stored teams and hashes; the view is not mounted.
InitDetail ==
  /\ teams \in UNION {[S -> {TeamRecord(rp, up)}] :
                        S \in SUBSET TeamIds, rp \in StorePrices, up \in StorePrices}
  /\ hashes \in {hs \in HashStores : \A h \in DOMAIN hs : hs[h] \in StoreHashRecords}
  /\ \A h \in DOMAIN hashes : hashes[h].team_id \in DOMAIN teams
  /\ response = NoResponse
  /\ issued = [teams |-> DOMAIN teams, hashes |-> DOMAIN hashes]
  /\ NoClients

\* The view, and other clients deleting teams and hashes meanwhile.
NextDetail ==
  \/ \E id \in TeamIds : DetailMount(id)
  \/ \E id \in TeamIds : DetailNavigate(id)
  \/ \E net \in {Delivered, Unreachable} : DetailTeamAnswer(net)
  \/ \E net \in {Delivered, Unreachable} : DetailHashesAnswer(net)
  \/ \E net \in {Delivered, Unreachable} : DetailSummaryAnswer(net)
  \/ \E h \in 1..MaxHashes : DetailDeleteHash(h)
  \/ \E net \in {Delivered, Unreachable, AnswerLost} : DetailDeleteAnswer(net)
  \/ \E net \in {Delivered, Unreachable} : DetailRefreshAnswer(net)
  \/ \E t \in DOMAIN teams : DeleteTeam(t)
  \/ \E h \in DOMAIN hashes : DeleteHash(h)

SpecDetail == InitDetail /\ [][NextDetail]_vars

\* The view as the only client of the store.
NextDetailAlone ==
  \/ \E id \in TeamIds : DetailMount(id)
  \/ \E id \in TeamIds : DetailNavigate(id)
  \/ \E net \in {Delivered, Unreachable} : DetailTeamAnswer(net)
  \/ \E net \in {Delivered, Unreachable} : DetailHashesAnswer(net)
  \/ \E net \in {Delivered, Unreachable} : DetailSummaryAnswer(net)
  \/ \E h \in 1..MaxHashes : DetailDeleteHash(h)
  \/ \E net \in {Delivered, Unreachable, AnswerLost} : DetailDeleteAnswer(net)
  \/ \E net \in {Delivered, Unreachable} : DetailRefreshAnswer(net)

SpecDetailAlone == InitDetail /\ [][NextDetailAlone]_vars

\* ------------------------------------------------------------------ form fields
\* The value of a form field: a string, as handleChange stores it, or a
\* number, as the load of the edit mode stores it.
Str(chars) == [type |-> "string", chars |-> chars]
Num(n) == [type |-> "number", n |-> n]

\* What the user types into an input.
TypedTexts ==
  {<<>>, <<"x">>, <<"1", "x">>, <<"-", "1">>, <<"0">>, <<"1">>, <<"2">>}

IsDigit(c) == c \in {"0", "1", "2"}
DigitValue(c) == CASE c = "0" -> 0 [] c = "1" -> 1 [] c = "2" -> 2

\* The longest prefix of cs made of digits.
RECURSIVE DigitPrefix(_)
DigitPrefix(cs) ==
  IF cs = <<>> \/ ~IsDigit(Head(cs)) THEN <<>>
  ELSE <<Head(cs)>> \o DigitPrefix(Tail(cs))

\* The number a sequence of digits denotes.
RECURSIVE DecimalValue(_)
DecimalValue(ds) ==
  IF ds = <<>> THEN 0
  ELSE 10 * DecimalValue(SubSeq(ds, 1, Len(ds) - 1)) + DigitValue(ds[Len(ds)])

NaN == [nan |-> TRUE, val |-> 0]
Number(n) == [nan |-> FALSE, val |-> n]

\* parseFloat: a number is converted to its text first; of a string the
\* longest numeric prefix (a sign, then digits) is read, NaN if there is none.
ParseFloat(v) ==
  IF v.type = "number" THEN Number(v.n)
  ELSE LET neg == v.chars # <<>> /\ Head(v.chars) = "-"
           ds == DigitPrefix(IF neg THEN Tail(v.chars) ELSE v.chars)
       IN IF ds = <<>> THEN NaN
          ELSE Number(IF neg THEN 0 - DecimalValue(ds) ELSE DecimalValue(ds))

\* !value: the empty string and the number 0 are falsy.
Falsy(v) == IF v.type = "number" THEN v.n = 0 ELSE v.chars = <<>>

\* !v || isNaN(parseFloat(v)) || parseFloat(v) <= 0
NotPositiveNumber(v) ==
  \/ Falsy(v)
  \/ ParseFloat(v).nan
  \/ (~ParseFloat(v).nan /\ ParseFloat(v).val <= 0)

\* The text is a valid floating-point number: a sign, then digits only.
IsNumberText(cs) ==
  LET body == IF cs # <<>> /\ Head(cs) = "-" THEN Tail(cs) ELSE cs
  IN body # <<>> /\ DigitPrefix(body) = body

\* e.target.value of an <input type="number">: the text if it is a valid
\* number, the empty string otherwise.
NumberInputValue(text) == IF IsNumberText(text) THEN Str(text) ELSE Str(<<>>)

\* ------------------------------------------------------------------ HashForm
TeamRequired == "select a team"
HashRequired == "the hash is required"
AmountNotPositive == "the token amount must be a positive number"
RateNotPositive == "RUB needs a positive exchange rate"
HashLoadError == "could not load the hash"
HashSaveError == "could not save the hash"

HashValues == {"", "0xabc"}

\* Sends the exchange rate typed in the form whatever the currency is.
HashDataKeepsRate(fd) ==
  [team_id |-> fd.team_id,
   hash_value |-> fd.hash_value,
   token_amount |-> ParseFloat(fd.token_amount).val,
   currency |-> fd.currency,
   exchange_rate |-> ParseFloat(fd.exchange_rate).val]

\* const hashData = {...}
HashData(fd) ==
  [team_id |-> fd.team_id,
   hash_value |-> fd.hash_value,
   token_amount |-> ParseFloat(fd.token_amount).val,
   currency |-> fd.currency,
   exchange_rate |-> IF fd.currency = "RUB"
                       THEN ParseFloat(fd.exchange_rate).val ELSE NoRate]

\* Skips the validation of the token amount.
HashFormInvalidNoAmountCheck(fd) ==
  IF fd.team_id = "" THEN TeamRequired
  ELSE IF fd.hash_value = "" THEN HashRequired
  ELSE IF fd.currency = "RUB" /\ NotPositiveNumber(fd.exchange_rate)
    THEN RateNotPositive
  ELSE NoError

\* The error of the first validation of handleSubmit that fails, NoError if
\* none does.
HashFormInvalid(fd) ==
  IF fd.team_id = "" THEN TeamRequired
  ELSE IF fd.hash_value = "" THEN HashRequired
  ELSE IF NotPositiveNumber(fd.token_amount) THEN AmountNotPositive
  ELSE IF fd.currency = "RUB" /\ NotPositiveNumber(fd.exchange_rate)
    THEN RateNotPositive
  ELSE NoError

\* useState of HashForm on /teams/:teamId/hashes/new; the effect requests the
\* teams.
HashFormMountNew(teamId) ==
  /\ hashForm.pc = "unmounted"
  /\ hashForm' =
       [pc |-> "idle", teamId |-> teamId, hashId |-> 0,
        formData |-> [team_id |-> teamId, hash_value |-> "",
                      token_amount |-> Str(<<>>), currency |-> "USDT",
                      exchange_rate |-> Str(<<>>)],
        loading |-> FALSE, error |-> NoError, teams |-> {},
        fetchingTeams |-> TRUE, request |-> <<>>, navigated |-> ""]
  /\ UNCHANGED <<teams, hashes, response, issued, detail, calc, teamForm, teamsView, sideVars>>

\* useState of HashForm on /hashes/:id/edit; the effect requests the teams
\* and calls fetchHashData, which sets loading and requests the hash.
HashFormMountEdit(hashId) ==
  /\ hashForm.pc = "unmounted"
  /\ hashForm' =
       [pc |-> "loading", teamId |-> "", hashId |-> hashId,
        formData |-> [team_id |-> "", hash_value |-> "",
                      token_amount |-> Str(<<>>), currency |-> "USDT",
                      exchange_rate |-> Str(<<>>)],
        loading |-> TRUE, error |-> NoError, teams |-> {},
        fetchingTeams |-> TRUE, request |-> <<>>, navigated |-> ""]
  /\ UNCHANGED <<teams, hashes, response, issued, detail, calc, teamForm, teamsView, sideVars>>

\* fetchTeams: the answer to GET /api/teams
HashFormTeamsAnswer(net) ==
  /\ hashForm.pc \in {"idle", "loading", "saving"}
  /\ hashForm.fetchingTeams
  /\ hashForm' = [hashForm EXCEPT
                    !.fetchingTeams = FALSE,
                    !.teams = IF net = Delivered THEN DOMAIN teams ELSE @]
  /\ UNCHANGED <<teams, hashes, response, issued, detail, calc, teamForm, teamsView, sideVars>>

\* fetchHashData: the answer to GET /api/hashes/{hashId}
HashFormLoadAnswer(net) ==
  /\ hashForm.pc = "loading"
  /\ IF net = Delivered /\ hashForm.hashId \in DOMAIN hashes
       THEN LET hash == hashes[hashForm.hashId]
            IN hashForm' =
                 [hashForm EXCEPT
                    !.pc = "idle",
                    !.formData =
                       [team_id |-> hash.team_id,
                        hash_value |-> "0xabc",
                        token_amount |-> Num(hash.token_amount),
                        currency |-> hash.currency,
                        exchange_rate |-> IF hash.exchange_rate = NoRate
                                            THEN Str(<<>>)
                                            ELSE Num(hash.exchange_rate)],
                    !.loading = FALSE]
       ELSE hashForm' = [hashForm EXCEPT !.pc = "idle", !.error = HashLoadError,
                                         !.loading = FALSE]
  /\ UNCHANGED <<teams, hashes, response, issued, detail, calc, teamForm, teamsView, sideVars>>

\* handleChange of the team select (disabled when the route names the team),
\* of the hash input, of the currency select, and of the two number inputs
\* (the exchange rate input is rendered for RUB only).
HashFormChange(name, value) ==
  /\ hashForm.pc \in {"idle", "loading", "saving"}
  /\ \/ /\ name = "team_id" /\ hashForm.teamId = ""
        /\ value \in {""} \cup hashForm.teams
     \/ name = "hash_value" /\ value \in HashValues
     \/ name = "currency" /\ value \in Currencies
     \/ /\ name = "token_amount"
        /\ value \in {NumberInputValue(tx) : tx \in TypedTexts}
     \/ /\ name = "exchange_rate" /\ hashForm.formData.currency = "RUB"
        /\ value \in {NumberInputValue(tx) : tx \in TypedTexts}
  /\ hashForm' = [hashForm EXCEPT !.formData = [@ EXCEPT ![name] = value]]
  /\ UNCHANGED <<teams, hashes, response, issued, detail, calc, teamForm, teamsView, sideVars>>

\* handleSubmit (the submit button is disabled while loading): a submission
\* that fails a validation sets the error and returns; a valid one sends the
\* create or update request.
HashFormSubmit ==
  /\ hashForm.pc \in {"idle", "loading", "saving"}
  /\ ~hashForm.loading
  /\ IF HashFormInvalid(hashForm.formData) # NoError
       THEN hashForm' = [hashForm EXCEPT
                           !.error = HashFormInvalid(hashForm.formData),
                           !.loading = FALSE]
       ELSE hashForm' =
              [hashForm EXCEPT
                 !.pc = "saving", !.loading = TRUE, !.error = NoError,
                 !.request =
                    <<[method |-> IF hashForm.hashId # 0 THEN "PUT" ELSE "POST",
                       id |-> hashForm.hashId,
                       data |-> HashData(hashForm.formData)]>>]
  /\ UNCHANGED <<teams, hashes, response, issued, detail, calc, teamForm, teamsView, sideVars>>

\* handleSubmit: the answer to the create or update request.  The store's
\* side of the request is CreateHash / UpdateHash.
HashFormSaveAnswer(net) ==
  /\ hashForm.pc = "saving"
  /\ IF net = Delivered
       THEN hashForm' = [hashForm EXCEPT
                           !.pc = "left", !.loading = FALSE, !.request = <<>>,
                           !.navigated = hashForm.request[1].data.team_id]
       ELSE hashForm' = [hashForm EXCEPT
                           !.pc = "idle", !.loading = FALSE, !.request = <<>>,
                           !.error = HashSaveError]
  /\ UNCHANGED <<teams, hashes, response, issued, detail, calc, teamForm, teamsView, sideVars>>

\* One team, with no hash or one hash; the form is not mounted.
InitHashForm ==
  /\ teams = [t \in {"t1"} |-> TeamRecord(MaxPrice, MaxPrice)]
  /\ hashes \in {hs \in HashStores :
                   /\ Len(hs) <= 1
                   /\ \A h \in DOMAIN hs :
                        hs[h] \in StoreHashRecords /\ hs[h].team_id = "t1"}
  /\ response = NoResponse
  /\ issued = [teams |-> DOMAIN teams, hashes |-> DOMAIN hashes]
  /\ NoClients

NextHashForm ==
  \/ \E t \in TeamIds : HashFormMountNew(t)
  \/ \E h \in 1..MaxHashes : HashFormMountEdit(h)
  \/ \E net \in {Delivered, Unreachable} : HashFormTeamsAnswer(net)
  \/ \E net \in {Delivered, Unreachable} : HashFormLoadAnswer(net)
  \/ \E name \in {"team_id", "hash_value", "currency"},
        value \in {""} \cup TeamIds \cup HashValues \cup Currencies :
       HashFormChange(name, value)
  \/ \E name \in {"token_amount", "exchange_rate"}, tx \in TypedTexts :
       HashFormChange(name, NumberInputValue(tx))
  \/ HashFormSubmit
  \/ \E net \in {Delivered, Unreachable} : HashFormSaveAnswer(net)

SpecHashForm == InitHashForm /\ [][NextHashForm]_vars

\* ------------------------------------------------------------------ TeamForm
NameRequired == "the team name is required"
RubPriceNotPositive == "the RUB price per lot must be a positive number"
UsdtPriceNotPositive == "the USDT price per lot must be a positive number"
TeamLoadError == "could not load the team"
TeamSaveError == "could not save the team"

\* The name of the stored teams (the summary does not read it), and the
\* names typed into the form.
StoredName == "alpha"
TeamNames == {"", "beta"}

\* const teamData = {...}
TeamData(fd) ==
  [name |-> fd.name,
   rub_price_per_lot |-> ParseFloat(fd.rub_price_per_lot).val,
   usdt_price_per_lot |-> ParseFloat(fd.usdt_price_per_lot).val]

\* Validates the name and the RUB price only.
TeamFormInvalidNoUsdtCheck(fd) ==
  IF fd.name = "" THEN NameRequired
  ELSE IF NotPositiveNumber(fd.rub_price_per_lot) THEN RubPriceNotPositive
  ELSE NoError

\* The error of the first validation of handleSubmit that fails, NoError if
\* none does.
TeamFormInvalid(fd) ==
  IF fd.name = "" THEN NameRequired
  ELSE IF NotPositiveNumber(fd.rub_price_per_lot) THEN RubPriceNotPositive
  ELSE IF NotPositiveNumber(fd.usdt_price_per_lot) THEN UsdtPriceNotPositive
  ELSE NoError

\* useState of TeamForm on /teams/new
TeamFormMountNew ==
  /\ teamForm.pc = "unmounted"
  /\ teamForm' =
       [pc |-> "idle", id |-> "",
        formData |-> [name |-> "", rub_price_per_lot |-> Str(<<>>),
                      usdt_price_per_lot |-> Str(<<>>)],
        loading |-> FALSE, error |-> NoError, request |-> <<>>,
        navigated |-> FALSE]
  /\ UNCHANGED <<teams, hashes, response, issued, detail, calc, hashForm, teamsView, sideVars>>

\* useState of TeamForm on /teams/:id/edit; the effect calls fetchTeamData,
\* which sets loading and requests the team.
TeamFormMountEdit(id) ==
  /\ teamForm.pc = "unmounted"
  /\ teamForm' =
       [pc |-> "loading", id |-> id,
        formData |-> [name |-> "", rub_price_per_lot |-> Str(<<>>),
                      usdt_price_per_lot |-> Str(<<>>)],
        loading |-> TRUE, error |-> NoError, request |-> <<>>,
        navigated |-> FALSE]
  /\ UNCHANGED <<teams, hashes, response, issued, detail, calc, hashForm, teamsView, sideVars>>

\* fetchTeamData: the answer to GET /api/teams/{id}
TeamFormLoadAnswer(net) ==
  /\ teamForm.pc = "loading"
  /\ IF net = Delivered /\ teamForm.id \in DOMAIN teams
       THEN teamForm' =
              [teamForm EXCEPT
                 !.pc = "idle",
                 !.formData =
                    [name |-> StoredName,
                     rub_price_per_lot |-> Num(teams[teamForm.id].rub_price_per_lot),
                     usdt_price_per_lot |-> Num(teams[teamForm.id].usdt_price_per_lot)],
                 !.loading = FALSE]
       ELSE teamForm' = [teamForm EXCEPT !.pc = "idle", !.error = TeamLoadError,
                                         !.loading = FALSE]
  /\ UNCHANGED <<teams, hashes, response, issued, detail, calc, hashForm, teamsView, sideVars>>

\* handleChange of the name input and of the two number inputs
TeamFormChange(name, value) ==
  /\ teamForm.pc \in {"idle", "loading", "saving"}
  /\ \/ name = "name" /\ value \in TeamNames
     \/ /\ name \in {"rub_price_per_lot", "usdt_price_per_lot"}
        /\ value \in {NumberInputValue(tx) : tx \in TypedTexts}
  /\ teamForm' = [teamForm EXCEPT !.formData = [@ EXCEPT ![name] = value]]
  /\ UNCHANGED <<teams, hashes, response, issued, detail, calc, hashForm, teamsView, sideVars>>

\* The submit button is enabled while loading.
TeamFormSubmitWhileLoading ==
  /\ teamForm.pc \in {"idle", "loading", "saving"}
  /\ IF TeamFormInvalid(teamForm.formData) # NoError
       THEN teamForm' = [teamForm EXCEPT
                           !.error = TeamFormInvalid(teamForm.formData),
                           !.loading = FALSE]
       ELSE teamForm' =
              [teamForm EXCEPT
                 !.pc = "saving", !.loading = TRUE, !.error = NoError,
                 !.request =
                    <<[method |-> IF teamForm.id # "" THEN "PUT" ELSE "POST",
                       id |-> teamForm.id,
                       data |-> TeamData(teamForm.formData)]>>]
  /\ UNCHANGED <<teams, hashes, response, issued, detail, calc, hashForm, teamsView, sideVars>>

\* handleSubmit (the submit button is disabled while loading): a submission
\* that fails a validation sets the error and returns; a valid one sends the
\* create or update request.
TeamFormSubmit ==
  /\ teamForm.pc \in {"idle", "loading", "saving"}
  /\ ~teamForm.loading
  /\ IF TeamFormInvalid(teamForm.formData) # NoError
       THEN teamForm' = [teamForm EXCEPT
                           !.error = TeamFormInvalid(teamForm.formData),
                           !.loading = FALSE]
       ELSE teamForm' =
              [teamForm EXCEPT
                 !.pc = "saving", !.loading = TRUE, !.error = NoError,
                 !.request =
                    <<[method |-> IF teamForm.id # "" THEN "PUT" ELSE "POST",
                       id |-> teamForm.id,
                       data |-> TeamData(teamForm.formData)]>>]
  /\ UNCHANGED <<teams, hashes, response, issued, detail, calc, hashForm, teamsView, sideVars>>

\* Navigates to the team list whatever the answer is.
TeamFormSaveAnswerNavigates(net) ==
  /\ teamForm.pc = "saving"
  /\ IF net = Delivered
       THEN teamForm' = [teamForm EXCEPT
                           !.pc = "left", !.loading = FALSE, !.request = <<>>,
                           !.navigated = TRUE]
       ELSE teamForm' = [teamForm EXCEPT
                           !.pc = "left", !.loading = FALSE, !.request = <<>>,
                           !.navigated = TRUE, !.error = TeamSaveError]
  /\ UNCHANGED <<teams, hashes, response, issued, detail, calc, hashForm, teamsView, sideVars>>

\* handleSubmit: the answer to the create or update request.  The store's
\* side of the request is CreateTeam / UpdateTeam.
TeamFormSaveAnswer(net) ==
  /\ teamForm.pc = "saving"
  /\ IF net = Delivered
       THEN teamForm' = [teamForm EXCEPT
                           !.pc = "left", !.loading = FALSE, !.request = <<>>,
                           !.navigated = TRUE]
       ELSE teamForm' = [teamForm EXCEPT
                           !.pc = "idle", !.loading = FALSE, !.request = <<>>,
                           !.error = TeamSaveError]
  /\ UNCHANGED <<teams, hashes, response, issued, detail, calc, hashForm, teamsView, sideVars>>

\* One stored team with any prices; the form is not mounted.
InitTeamForm ==
  /\ teams \in {[t \in {"t1"} |-> TeamRecord(rp, up)] : rp \in Prices, up \in Prices}
  /\ hashes = <<>>
  /\ response = NoResponse
  /\ issued = [teams |-> DOMAIN teams, hashes |-> DOMAIN hashes]
  /\ NoClients

NextTeamForm ==
  \/ TeamFormMountNew
  \/ \E id \in TeamIds : TeamFormMountEdit(id)
  \/ \E net \in {Delivered, Unreachable} : TeamFormLoadAnswer(net)
  \/ \E value \in TeamNames : TeamFormChange("name", value)
  \/ \E name \in {"rub_price_per_lot", "usdt_price_per_lot"}, tx \in TypedTexts :
       TeamFormChange(name, NumberInputValue(tx))
  \/ TeamFormSubmit
  \/ \E net \in {Delivered, Unreachable} : TeamFormSaveAnswer(net)

SpecTeamForm == InitTeamForm /\ [][NextTeamForm]_vars

\* ------------------------------------------------------------------ the two forms
\* The router shows one view at a time: a form is mounted while the other is
\* not.
NextForms ==
  \/ hashForm.pc = "unmounted" /\ NextTeamForm
  \/ teamForm.pc = "unmounted" /\ NextHashForm

SpecForms == InitHashForm /\ [][NextForms]_vars

\* ------------------------------------------------------------------ Calculations
CalcLoadError == "could not load the calculations"

\* Adds up the RUB lots only.
RECURSIVE SumRubLots(_)
SumRubLots(data) ==
  IF data = <<>> THEN 0
  ELSE SumRubLots(SubSeq(data, 1, Len(data) - 1)) + data[Len(data)].rub_lots

\* response.data.reduce((sum, team) => sum + team.total_lots, 0)
RECURSIVE SumTotalLots(_)
SumTotalLots(data) ==
  IF data = <<>> THEN 0
  ELSE SumTotalLots(SubSeq(data, 1, Len(data) - 1)) + data[Len(data)].total_lots

\* useState of Calculations; the effect calls fetchSummaries, which sets
\* loading and requests the summaries.
CalcMount ==
  /\ calc.pc = "unmounted"
  /\ calc' = [pc |-> "fetching", summaries |-> <<>>, loading |-> TRUE,
              error |-> NoError, totalLots |-> 0]
  /\ UNCHANGED <<teams, hashes, response, issued, detail, teamForm, hashForm, teamsView, sideVars>>

\* fetchSummaries: the answer to GET /api/teams/summary
CalcAnswer(net) ==
  /\ calc.pc = "fetching"
  /\ IF net = Delivered
       THEN \E r \in SummariesAnswers :
              /\ response' = r
              /\ calc' = [calc EXCEPT !.pc = "idle", !.summaries = r.body,
                                      !.totalLots = SumTotalLots(r.body),
                                      !.error = NoError, !.loading = FALSE]
       ELSE /\ response' = response
            /\ calc' = [calc EXCEPT !.pc = "idle", !.error = CalcLoadError,
                                    !.loading = FALSE]
  /\ UNCHANGED <<teams, hashes, issued, detail, teamForm, hashForm, teamsView, sideVars>>

\* The user leaves the page.
CalcUnmount ==
  /\ calc.pc = "idle"
  /\ calc' = NoView
  /\ UNCHANGED <<teams, hashes, response, issued, detail, teamForm, hashForm, teamsView, sideVars>>

\* What Calculations renders.
CalcShows ==
  IF calc.pc = "unmounted" THEN "nothing"
  ELSE IF calc.loading THEN "spinner"
  ELSE IF calc.error # NoError THEN "error"
  ELSE IF Len(calc.summaries) = 0 THEN "no data"
  ELSE "table"

NextCalc ==
  \/ CalcMount
  \/ \E net \in {Delivered, Unreachable} : CalcAnswer(net)
  \/ CalcUnmount

\* The view against any stored teams and hashes.
SpecCalc == Init /\ [][NextCalc]_vars

\* ------------------------------------------------------------------ team listing
\* Strings are sequences of characters.  The characters that matter to the
\* two listings: letters in both cases, the regular-expression "any
\* character", and the two wildcards of LIKE.
Chars == {"a", "A", "b", ".", "_", "%"}

MaxSearchLen == 2
MaxListed == 3

StringsUpTo(S, n) == UNION {[1..k -> S] : k \in 0..n}

SearchTerms == StringsUpTo(Chars, MaxSearchLen)

\* Names of stored teams (non-empty strings).
ListedNames == {<<"a", "b">>, <<"A", "b">>, <<"a", "_">>, <<"b">>}

Lower(c) == IF c = "A" THEN "a" ELSE c

\* Python's `if search:` : neither None nor the empty string.
SearchGiven(search) == search # <<>> /\ search[1] # <<>>

\* {"$regex": search, "$options": "i"}: the search string is a regular
\* expression, found anywhere in the name, letters in either case; "."
\* stands for any character, every other character of Chars for itself.
RegexFound(pattern, name) ==
  \E i \in 0..(Len(name) - Len(pattern)) :
    \A j \in 1..Len(pattern) :
      \/ pattern[j] = "."
      \/ Lower(pattern[j]) = Lower(name[i + j])

\* name ILIKE pattern: "%" stands for any sequence of characters, "_" for any
\* one character, every other character for itself in either case; the
\* pattern has to match the whole name.
RECURSIVE ILike(_, _)
ILike(name, pattern) ==
  IF pattern = <<>> THEN name = <<>>
  ELSE IF Head(pattern) = "%"
    THEN \/ ILike(name, Tail(pattern))
         \/ name # <<>> /\ ILike(Tail(name), pattern)
  ELSE /\ name # <<>>
       /\ Head(pattern) = "_" \/ Lower(Head(pattern)) = Lower(Head(name))
       /\ ILike(Tail(name), Tail(pattern))

\* The positions of the stored teams, in store order: find() and query are
\* narrowed down from these.
Positions(names) == [i \in 1..Len(names) |-> i]

\* to_list(1000): the length given to to_list, in a store of at most
\* MaxListed teams.
ToListLength == 2

ToList(cursor, length) ==
  IF Len(cursor) <= length THEN cursor ELSE SubSeq(cursor, 1, length)

\* get_teams, MongoDB version.
GetTeamsMongo(names, search) ==
  ToList(SelectSeq(Positions(names),
                   LAMBDA i : SearchGiven(search)
                                => RegexFound(search[1], names[i])),
         ToListLength)

\* get_teams, SQL version: ilike(f"%{search}%") and query.all().
GetTeamsSql(names, search) ==
  SelectSeq(Positions(names),
            LAMBDA i : SearchGiven(search)
                         => ILike(names[i], <<"%">> \o search[1] \o <<"%">>))

\* Both versions answer the same request over the same teams.
GetTeams(search) ==
  /\ listing.pc # "none"
  /\ listing' = [pc |-> "answered", names |-> listing.names,
                 search |-> search,
                 mongo |-> GetTeamsMongo(listing.names, search),
                 sql |-> GetTeamsSql(listing.names, search)]
  /\ UNCHANGED <<teams, hashes, response, issued, viewVars, reader, sql>>

\* Teams.fetchTeams: GET /api/teams, no search parameter.
ListingFetchTeams == GetTeams(<<>>)

\* Teams.handleSearch: GET /api/teams?search=<searchTerm>.
ListingHandleSearch(searchTerm) == GetTeams(<<searchTerm>>)

\* The teams both databases hold.
InitListing ==
  /\ teams = <<>>
  /\ hashes = <<>>
  /\ response = NoResponse
  /\ issued = [teams |-> {}, hashes |-> {}]
  /\ detail = NoView /\ calc = NoView /\ teamForm = NoView /\ hashForm = NoView
  /\ teamsView = NoView
  /\ reader = NoReader
  /\ sql = NoSql
  /\ listing \in {[pc |-> "stored", names |-> ns] :
                    ns \in StringsUpTo(ListedNames, MaxListed)}

NextListing ==
  \/ ListingFetchTeams
  \/ \E searchTerm \in SearchTerms : ListingHandleSearch(searchTerm)

SpecListing == InitListing /\ [][NextListing]_vars

\* ------------------------------------------------------------------ migration
\* The documents a MongoDB collection of the source holds at most.
MaxDocs == 3

MigratedTeamIds == <<"t1", "t2", "t3">>

\* A document of mongo_db.teams (timestamps are copied like the other
\* fields and left out).
TeamDocument(i, rp) ==
  [id |-> MigratedTeamIds[i], name |-> StoredName,
   rub_price_per_lot |-> rp, usdt_price_per_lot |-> MaxPrice]

\* A document of mongo_db.crypto_hashes; a USDT hash has no exchange_rate
\* key.
HashDocument(i, t, cur) ==
  [id |-> i, team_id |-> t, hash_value |-> "0xabc", token_amount |-> 1,
   currency |-> cur,
   exchange_rate |-> IF cur = "RUB" THEN <<MaxRate>> ELSE <<>>]

\* The collections of a source database: teams in insertion order, hashes
\* of these teams in insertion order.
TeamCollections ==
  UNION {{[i \in 1..k |-> TeamDocument(i, rp[i])] :
            rp \in [1..k -> StorePrices]} : k \in 0..MaxDocs}

HashCollections(ts) ==
  UNION {{[i \in 1..k |-> HashDocument(i, ts[t[i]].id, cur[i])] :
            t \in [1..k -> 1..Len(ts)], cur \in [1..k -> Currencies]} :
           k \in 0..MaxDocs}

\* TeamModel(id=team['id'], ...)
SqlTeam(team) ==
  [id |-> team.id, name |-> team.name,
   rub_price_per_lot |-> team.rub_price_per_lot,
   usdt_price_per_lot |-> team.usdt_price_per_lot]

\* CryptoHashModel(id=hash_['id'], ..., exchange_rate=hash_.get('exchange_rate'))
SqlHash(hash_) ==
  [id |-> hash_.id, team_id |-> hash_.team_id,
   hash_value |-> hash_.hash_value, token_amount |-> hash_.token_amount,
   currency |-> hash_.currency, exchange_rate |-> hash_.exchange_rate]

\* for team in teams: db.add(sql_team)
SqlTeams(documents) == {SqlTeam(documents[i]) : i \in 1..Len(documents)}

\* for hash_ in hashes: db.add(sql_hash)
SqlHashes(documents) == {SqlHash(documents[i]) : i \in 1..Len(documents)}

\* migrate_teams: find().to_list(1000), db.add for each, db.commit().
MigrateTeams ==
  /\ sql.pc = "run_migration"
  /\ sql' = [sql EXCEPT !.pc = "teams migrated",
                        !.teams = @ \cup SqlTeams(ToList(sql.mongo_teams,
                                                         ToListLength))]
  /\ UNCHANGED <<teams, hashes, response, issued, viewVars, reader, listing>>

\* migrate_hashes: find().to_list(1000), db.add for each, db.commit().  A
\* database that enforces foreign keys (PostgreSQL) refuses the commit when
\* a hash refers to a team that is not in the teams table, and the script
\* ends with the exception; SQLite as configured here does not check.
MigrateHashes ==
  /\ sql.pc = "teams migrated"
  /\ LET rows == SqlHashes(ToList(sql.mongo_hashes, ToListLength))
     IN IF sql.foreign_keys
           /\ \E r \in rows : \A t \in sql.teams : t.id # r.team_id
          THEN sql' = [sql EXCEPT !.pc = "failed"]
          ELSE sql' = [sql EXCEPT !.pc = "completed",
                                  !.hashes = @ \cup rows]
  /\ UNCHANGED <<teams, hashes, response, issued, viewVars, reader, listing>>

\* A source database, an empty SQL database (create_all), the script about
\* to run.
InitMigration ==
  /\ teams = <<>>
  /\ hashes = <<>>
  /\ response = NoResponse
  /\ issued = [teams |-> {}, hashes |-> {}]
  /\ detail = NoView /\ calc = NoView /\ teamForm = NoView /\ hashForm = NoView
  /\ teamsView = NoView
  /\ reader = NoReader
  /\ listing = NoListing
  /\ \E ts \in TeamCollections, fk \in BOOLEAN :
       \E hs \in (IF ts = <<>> THEN {<<>>} ELSE HashCollections(ts)) :
         sql = [pc |-> "run_migration", mongo_teams |-> ts, mongo_hashes |-> hs,
                foreign_keys |-> fk, teams |-> {}, hashes |-> {}]

\* run_migration: migrate_teams, then migrate_hashes.
NextMigration ==
  \/ MigrateTeams
  \/ MigrateHashes

SpecMigration == InitMigration /\ [][NextMigration]_vars

\* ------------------------------------------------------------------ claims
\* The summaries of the latest response (one for a team request, one per
\* team for the fleet-wide request, none otherwise).
Summaries == {response.body[i] : i \in DOMAIN response.body}

RubPrice(s) == teams[s.team_id].rub_price_per_lot
UsdtPrice(s) == teams[s.team_id].usdt_price_per_lot

\* lots is the floor of tokens / price, and the remainder is within [0, price).
IsFloor(lots, tokens, price) ==
  /\ lots * price <= tokens
  /\ tokens < (lots + 1) * price

NeededMatches(needed, remainder, price) ==
  IF remainder = 0 THEN needed = 0 ELSE needed = price - remainder

\* C3 as stated: needed = 0 at a zero remainder; otherwise needed = price -
\* remainder and lies strictly between 0 and the price; in every summary.
C3_Original ==
  \A s \in Summaries :
    /\ NeededMatches(s.rub_needed_for_next_lot, s.rub_remainder, RubPrice(s))
    /\ s.rub_remainder # 0 =>
         /\ 0 < s.rub_needed_for_next_lot
         /\ s.rub_needed_for_next_lot < RubPrice(s)
    /\ NeededMatches(s.usdt_needed_for_next_lot, s.usdt_remainder, UsdtPrice(s))
    /\ s.usdt_remainder # 0 =>
         /\ 0 < s.usdt_needed_for_next_lot
         /\ s.usdt_needed_for_next_lot < UsdtPrice(s)

\* C3 amended: needed = 0 at a zero remainder, otherwise needed = price -
\* remainder; it lies strictly between 0 and the price whenever the price is
\* positive; the same for USDT.
C3_NeededForNextLot ==
  \A s \in Summaries :
    /\ NeededMatches(s.rub_needed_for_next_lot, s.rub_remainder, RubPrice(s))
    /\ (s.rub_remainder # 0 /\ RubPrice(s) > 0) =>
         /\ 0 < s.rub_needed_for_next_lot
         /\ s.rub_needed_for_next_lot < RubPrice(s)
    /\ NeededMatches(s.usdt_needed_for_next_lot, s.usdt_remainder, UsdtPrice(s))
    /\ (s.usdt_remainder # 0 /\ UsdtPrice(s) > 0) =>
         /\ 0 < s.usdt_needed_for_next_lot
         /\ s.usdt_needed_for_next_lot < UsdtPrice(s)

\* A team holding an exact multiple of the USDT lot price (needs 0) and a RUB
\* remainder below the RUB lot price (needs price - remainder).
C3_Witness ==
  \E s \in Summaries :
    /\ UsdtPrice(s) > 0 /\ s.usdt_lots >= 1
    /\ s.usdt_remainder = 0 /\ s.usdt_needed_for_next_lot = 0
    /\ RubPrice(s) > 0 /\ s.rub_remainder > 0
    /\ s.rub_needed_for_next_lot = RubPrice(s) - s.rub_remainder

\* The RUB value of the stored hashes with ids in S.
RECURSIVE RubValueOf(_)
RubValueOf(S) ==
  IF S = {} THEN 0
  ELSE LET h == CHOOSE x \in S : TRUE
       IN hashes[h].token_amount * hashes[h].exchange_rate + RubValueOf(S \ {h})

\* The token amount of the stored hashes with ids in S.
RECURSIVE AmountOf(_)
AmountOf(S) ==
  IF S = {} THEN 0
  ELSE LET h == CHOOSE x \in S : TRUE
       IN hashes[h].token_amount + AmountOf(S \ {h})

HashIdsIn(t, cur) ==
  {h \in DOMAIN hashes : hashes[h].team_id = t /\ hashes[h].currency = cur}

\* C4: rub_tokens is the sum of token_amount x exchange_rate over exactly the
\* team's RUB hashes, usdt_tokens the sum of token_amount over exactly the
\* team's USDT hashes; other teams' and the other currency's hashes add nothing.
C4_TokensSumOwnHashesOfTheCurrency ==
  \A s \in Summaries :
    /\ s.rub_tokens = RubValueOf(HashIdsIn(s.team_id, "RUB"))
    /\ s.usdt_tokens = AmountOf(HashIdsIn(s.team_id, "USDT"))

\* A fleet-wide response over two teams, one holding only a RUB hash at a
\* rate above 1, the other only a USDT hash.
C4_Witness ==
  \E s1 \in Summaries, s2 \in Summaries :
    /\ s1.team_id # s2.team_id
    /\ s1.rub_tokens > 1 /\ s1.usdt_tokens = 0
    /\ HashIdsIn(s1.team_id, "RUB") # {} /\ HashIdsIn(s1.team_id, "USDT") = {}
    /\ \E h \in HashIdsIn(s1.team_id, "RUB") : hashes[h].exchange_rate > 1
    /\ s2.usdt_tokens > 0 /\ s2.rub_tokens = 0

\* C5: the summary of a team that has no hashes has every numeric field 0,
\* whatever the team's prices are.
C5_NoHashesAllZero ==
  \A s \in Summaries :
    HashIdsOf(s.team_id) = {} =>
      /\ s.rub_tokens = 0 /\ s.usdt_tokens = 0
      /\ s.rub_lots = 0 /\ s.usdt_lots = 0
      /\ s.rub_lots_raw = RawZero /\ s.usdt_lots_raw = RawZero
      /\ s.total_lots = 0
      /\ s.rub_remainder = 0 /\ s.usdt_remainder = 0
      /\ s.rub_needed_for_next_lot = 0 /\ s.usdt_needed_for_next_lot = 0

\* The summary of a team without hashes whose prices are positive and differ.
C5_Witness ==
  \E s \in Summaries :
    /\ HashIdsOf(s.team_id) = {}
    /\ RubPrice(s) > 0 /\ UsdtPrice(s) > 0 /\ RubPrice(s) # UsdtPrice(s)

\* C6: at a zero price-per-lot the request still answers with a summary, and
\* that currency's raw lots and lots are 0, even if the team holds hashes in it.
C6_ZeroPriceGivesZeroLots ==
  /\ (response.op = "summary" /\ response.team_id \in DOMAIN teams) =>
       (response.status = "ok" /\ Len(response.body) = 1)
  /\ \A s \in Summaries :
       /\ RubPrice(s) = 0 => (s.rub_lots_raw = RawZero /\ s.rub_lots = 0)
       /\ UsdtPrice(s) = 0 => (s.usdt_lots_raw = RawZero /\ s.usdt_lots = 0)

\* A team request answered for a team with a zero RUB price and RUB hashes.
C6_Witness ==
  /\ response.op = "summary" /\ response.status = "ok"
  /\ \E s \in Summaries : RubPrice(s) = 0 /\ s.rub_tokens > 0

\* C7 as stated: for every input, a zero price included, remainder = tokens -
\* lots x price is >= 0 and strictly below the price.
C7_Original ==
  \A s \in Summaries :
    /\ s.rub_remainder = s.rub_tokens - s.rub_lots * RubPrice(s)
    /\ 0 <= s.rub_remainder /\ s.rub_remainder < RubPrice(s)
    /\ s.usdt_remainder = s.usdt_tokens - s.usdt_lots * UsdtPrice(s)
    /\ 0 <= s.usdt_remainder /\ s.usdt_remainder < UsdtPrice(s)

\* C7 amended: remainder = tokens - lots x price is always >= 0, and strictly
\* below the price whenever the price is positive; at a zero price it is the
\* whole token total.
C7_RemainderIdentityAndRange ==
  \A s \in Summaries :
    /\ s.rub_remainder = s.rub_tokens - s.rub_lots * RubPrice(s)
    /\ 0 <= s.rub_remainder
    /\ RubPrice(s) > 0 => s.rub_remainder < RubPrice(s)
    /\ RubPrice(s) = 0 => s.rub_remainder = s.rub_tokens
    /\ s.usdt_remainder = s.usdt_tokens - s.usdt_lots * UsdtPrice(s)
    /\ 0 <= s.usdt_remainder
    /\ UsdtPrice(s) > 0 => s.usdt_remainder < UsdtPrice(s)
    /\ UsdtPrice(s) = 0 => s.usdt_remainder = s.usdt_tokens

\* A summary at a zero USDT price with USDT hashes (the remainder is the
\* token total) and at a positive RUB price with a RUB remainder below it.
C7_Witness ==
  \E s \in Summaries :
    /\ UsdtPrice(s) = 0 /\ s.usdt_tokens > 0 /\ s.usdt_remainder = s.usdt_tokens
    /\ RubPrice(s) > 0 /\ s.rub_remainder > 0 /\ s.rub_remainder < RubPrice(s)

\* Every ordering of the stored hashes of team t.
Reorderings(t) ==
  {[i \in DOMAIN o |-> hashes[o[i]]] : o \in Orderings(HashIdsOf(t))}

RubPart(s) ==
  <<s.rub_tokens, s.rub_lots_raw, s.rub_lots, s.rub_remainder,
    s.rub_needed_for_next_lot>>

UsdtPart(s) ==
  <<s.usdt_tokens, s.usdt_lots_raw, s.usdt_lots, s.usdt_remainder,
    s.usdt_needed_for_next_lot>>

\* The hashes of hs with currency cur, in the order of hs.
OfCurrency(hs, cur) == SelectSeq(hs, LAMBDA h : h.currency = cur)

\* Hash collections that differ from hs at most in the hashes of currency
\* cur: those removed, replaced by one other hash, or one more hash added.
WithOther(hs, t, cur) ==
  LET keep == OfCurrency(hs, IF cur = "RUB" THEN "USDT" ELSE "RUB")
      one == {<<HashRecord(t, cur, amt, rate)>> : amt \in Amounts, rate \in Rates}
  IN {keep} \cup {keep \o x : x \in one} \cup {x \o hs : x \in one}

\* C9: RUB and USDT are computed independently: whatever the team's
\* usdt_price_per_lot or its USDT hashes are changed to, the RUB fields stay
\* as returned, and the other way round.
C9_CurrenciesIndependent ==
  (response.op = "summary" /\ response.status = "ok") =>
    LET t == response.team_id
        s == response.body[1]
        hs == ListHashes(t)
    IN /\ \A p \in Prices :
            /\ RubPart(Summary(t, [teams[t] EXCEPT !.usdt_price_per_lot = p], hs))
                 = RubPart(s)
            /\ UsdtPart(Summary(t, [teams[t] EXCEPT !.rub_price_per_lot = p], hs))
                 = UsdtPart(s)
       /\ \A alt \in WithOther(hs, t, "USDT") :
            RubPart(Summary(t, teams[t], alt)) = RubPart(s)
       /\ \A alt \in WithOther(hs, t, "RUB") :
            UsdtPart(Summary(t, teams[t], alt)) = UsdtPart(s)

\* A team request answered for a team that holds both a RUB and a USDT hash
\* and has positive prices.
C9_Witness ==
  /\ response.op = "summary" /\ response.status = "ok"
  /\ \E s \in Summaries :
       /\ s.rub_tokens > 0 /\ s.usdt_tokens > 0
       /\ RubPrice(s) > 0 /\ UsdtPrice(s) > 0

\* The summaries of a response, whatever their order.
SameSummaries(r1, r2) ==
  {r1.body[i] : i \in DOMAIN r1.body} = {r2.body[i] : i \in DOMAIN r2.body}

\* C10: a summary request (one team or all teams) leaves the stored teams
\* and hashes as they were, and a request that follows another one with no
\* write in between returns the same result.
C10_SummaryHasNoSideEffects ==
  [][/\ response'.op \in {"summary", "summaries"} =>
          (teams' = teams /\ hashes' = hashes)
     /\ (response.op = "summary" /\ response'.op = "summary"
           /\ response'.team_id = response.team_id) => response' = response
     /\ (response.op = "summaries" /\ response'.op = "summaries") =>
          SameSummaries(response, response')]_vars

\* A fleet-wide response over two teams while the store holds hashes.
C10_Witness ==
  /\ response.op = "summaries" /\ Len(response.body) = 2
  /\ DOMAIN hashes # {}
  /\ \E s \in Summaries : s.total_lots > 0

\* C11: a summary is computed from the stored state, never from a cached or
\* stored value: after any completed creates, updates and deletes, a summary
\* request returns the engine's result on the team's current prices and
\* current hashes (whatever their order), and the fleet-wide request returns
\* it for every team.
C11_SummaryFromCurrentState ==
  /\ (response.op = "summary" /\ response.team_id \in DOMAIN teams) =>
       /\ response.status = "ok"
       /\ \A hs \in Reorderings(response.team_id) :
            response.body
              = <<Summary(response.team_id, teams[response.team_id], hs)>>
  /\ response.op = "summaries" =>
       \A s \in Summaries :
         /\ s.team_id \in DOMAIN teams
         /\ \A hs \in Reorderings(s.team_id) :
              s = Summary(s.team_id, teams[s.team_id], hs)
  /\ \A s \in Summaries :
       /\ s.rub_tokens = RubValueOf(HashIdsIn(s.team_id, "RUB"))
       /\ s.usdt_tokens = AmountOf(HashIdsIn(s.team_id, "USDT"))

\* A team request answered after a hash was deleted, for a team that still
\* holds a hash and has lots.
C11_Witness ==
  /\ response.op = "summary" /\ response.status = "ok"
  /\ issued.hashes \ DOMAIN hashes # {}
  /\ HashIdsOf(response.team_id) # {}
  /\ response.body[1].total_lots > 0

\* C13: deleting a team deletes all hashes that reference it: once a team is
\* deleted no stored hash has its id, a summary lookup for it answers
\* NotFound with no summary, and the fleet-wide summary does not list it.
C13_DeleteTeamCascades ==
  \A t \in issued.teams \ DOMAIN teams :
    /\ HashIdsOf(t) = {}
    /\ (response.op = "summary" /\ response.team_id = t) =>
         (response.status = "NotFound" /\ response.body = <<>>)
    /\ response.op = "summaries" => \A s \in Summaries : s.team_id # t

\* A lookup answered NotFound for a deleted team whose hashes went with it,
\* while the other team and its hash are still stored.
C13_Witness ==
  /\ response.op = "summary" /\ response.status = "NotFound"
  /\ response.team_id \in issued.teams \ DOMAIN teams
  /\ Cardinality(issued.hashes) = MaxHashes
  /\ Cardinality(DOMAIN hashes) = 1
  /\ DOMAIN teams # {}

\* C12: a summary request for a team id that does not exist yields NotFound
\* and no summary record, and the team-detail view, once it has handled that
\* answer, shows an error and no summary panel.
C12_NotFoundShowsErrorAndNoPanel ==
  [][(/\ detail.pc \in {"summary", "refresh"}
      /\ detail' # detail
      /\ detail.id \notin DOMAIN teams)
       => /\ SummaryAnswer(detail.id).status = "NotFound"
          /\ SummaryAnswer(detail.id).body = <<>>
          /\ DetailShows' = "error"
          /\ ~DetailShowsSummaryPanel']_vars

\* The field holds a positive number: a number above 0, or a text that is
\* all digits and denotes one.
PositiveField(v) ==
  IF v.type = "number" THEN v.n > 0
  ELSE /\ v.chars # <<>>
       /\ \A i \in DOMAIN v.chars : IsDigit(v.chars[i])
       /\ \E i \in DOMAIN v.chars : v.chars[i] # "0"

\* C14: every hash the hash form sends, on create and on edit and whatever
\* was typed or switched before, has a positive exchange_rate if its
\* currency is RUB and a null exchange_rate if it is USDT; a RUB submission
\* whose rate is missing or not a positive number is rejected with an error
\* and sends no request.
C14_RateIffRub ==
  [][/\ hashForm'.pc = "saving" =>
          LET d == hashForm'.request[1].data
          IN /\ d.currency = "RUB" => d.exchange_rate > 0
             /\ d.currency = "USDT" => d.exchange_rate = NoRate
     /\ (/\ HashFormSubmit
         /\ hashForm.formData.currency = "RUB"
         /\ ~PositiveField(hashForm.formData.exchange_rate))
          => /\ hashForm'.pc = "idle"
             /\ hashForm'.request = <<>>
             /\ hashForm'.error # NoError]_vars

\* The edit form of a RUB hash sends the hash as USDT, with a null rate,
\* while the form still holds the rate.
C14_Witness ==
  /\ hashForm.pc = "saving"
  /\ hashForm.hashId \in DOMAIN hashes
  /\ hashes[hashForm.hashId].currency = "RUB"
  /\ hashForm.request[1].data.currency = "USDT"
  /\ hashForm.request[1].data.exchange_rate = NoRate
  /\ PositiveField(hashForm.formData.exchange_rate)

\* C19: a submission of the hash form with no team selected, an empty
\* hash_value, or a token_amount that is empty or not a positive number is
\* rejected: it sets an error, sends no request, does not navigate, leaves
\* the form fields unchanged and ends with loading = false; so every hash the
\* form sends has token_amount > 0 and a non-empty team_id.
C19_HashFormRejectsInvalid ==
  [][/\ (/\ HashFormSubmit
         /\ \/ hashForm.formData.team_id = ""
            \/ hashForm.formData.hash_value = ""
            \/ ~PositiveField(hashForm.formData.token_amount))
          => /\ hashForm'.error # NoError
             /\ hashForm'.pc = "idle" /\ hashForm'.request = <<>>
             /\ hashForm'.navigated = hashForm.navigated
             /\ hashForm'.formData = hashForm.formData
             /\ ~hashForm'.loading
     /\ hashForm'.pc = "saving" =>
          /\ hashForm'.request[1].data.token_amount > 0
          /\ hashForm'.request[1].data.team_id # ""]_vars

\* A submission rejected for its token amount (0 or negative) although team
\* and hash value are filled in.
C19_Witness ==
  /\ hashForm.pc = "idle"
  /\ hashForm.error = AmountNotPositive
  /\ hashForm.formData.team_id # "" /\ hashForm.formData.hash_value # ""
  /\ hashForm.formData.token_amount \in {Str(<<"0">>), Str(<<"-", "1">>)}
  /\ hashForm.request = <<>> /\ hashForm.navigated = ""
  /\ ~hashForm.loading

\* C18: a submission of the team form whose name is empty, or whose
\* rub_price_per_lot or usdt_price_per_lot is empty or not a positive number,
\* sets an error, sends no request, does not navigate and ends with loading =
\* false; so every team the form sends has both prices > 0.
C18_TeamFormRejectsInvalid ==
  [][/\ (/\ TeamFormSubmit
         /\ \/ teamForm.formData.name = ""
            \/ ~PositiveField(teamForm.formData.rub_price_per_lot)
            \/ ~PositiveField(teamForm.formData.usdt_price_per_lot))
          => /\ teamForm'.error # NoError
             /\ teamForm'.pc = "idle" /\ teamForm'.request = <<>>
             /\ teamForm'.navigated = teamForm.navigated
             /\ ~teamForm'.loading
     /\ teamForm'.pc = "saving" =>
          /\ teamForm'.request[1].data.rub_price_per_lot > 0
          /\ teamForm'.request[1].data.usdt_price_per_lot > 0]_vars

\* The edit form of a team stored with a zero USDT price, submitted as
\* loaded, is rejected for that price.
C18_Witness ==
  /\ teamForm.pc = "idle"
  /\ teamForm.error = UsdtPriceNotPositive
  /\ teamForm.formData.usdt_price_per_lot = Num(0)
  /\ PositiveField(teamForm.formData.rub_price_per_lot)
  /\ teamForm.request = <<>> /\ ~teamForm.navigated /\ ~teamForm.loading

\* The total_lots of the summaries displayed at the positions in I.
RECURSIVE DisplayedLots(_)
DisplayedLots(I) ==
  IF I = {} THEN 0
  ELSE LET i == CHOOSE x \in I : TRUE
       IN calc.summaries[i].total_lots + DisplayedLots(I \ {i})

\* C15: the fleet-wide summary holds exactly one summary for each existing
\* team, and the total of the Calculations view is the sum of total_lots over
\* exactly the summaries it displays; with no teams it is 0.
C15_OneSummaryPerTeamAndTotal ==
  /\ response.op = "summaries" =>
       /\ Len(response.body) = Cardinality(DOMAIN teams)
       /\ \A t \in DOMAIN teams :
            Cardinality({i \in DOMAIN response.body : response.body[i].team_id = t}) = 1
  /\ calc.pc = "idle" =>
       /\ calc.totalLots = DisplayedLots(DOMAIN calc.summaries)
       /\ CalcShows = "table" => calc.summaries = response.body
       /\ (DOMAIN teams = {} \/ CalcShows # "table") => calc.totalLots = 0

\* The view shows two teams, the first with RUB lots and the second with
\* USDT lots, and their total.
C15_Witness ==
  /\ CalcShows = "table"
  /\ Len(calc.summaries) = 2
  /\ calc.summaries[1].rub_lots > 0 /\ calc.summaries[2].usdt_lots > 0
  /\ calc.totalLots
       = calc.summaries[1].total_lots + calc.summaries[2].total_lots

Listed(result) == {result[i] : i \in 1..Len(result)}

\* The name contains the string, letters in either case.
ContainsIgnoringCase(name, s) ==
  \E i \in 0..(Len(name) - Len(s)) :
    \A j \in 1..Len(s) : Lower(s[j]) = Lower(name[i + j])

\* C17: for every set of teams and every search string the SQL listing and
\* the MongoDB listing return the same teams, namely the teams whose name
\* contains the search string as a case-insensitive substring, and all teams
\* when no search string or an empty one is given.
C17_SqlListingSameAsMongo ==
  listing.pc = "answered" =>
    /\ Listed(listing.sql) = Listed(listing.mongo)
    /\ Listed(listing.sql)
         = {i \in 1..Len(listing.names) :
              SearchGiven(listing.search)
                => ContainsIgnoringCase(listing.names[i], listing.search[1])}

\* C20: after run_migration completes, every team and every hash of the
\* source database is in the SQL database with the same id and field values,
\* and every migrated hash's team_id is the id of a migrated team (teams are
\* inserted before hashes: the hashes table is empty until the teams are
\* committed).
C20_MigrationFaithful ==
  /\ sql.pc \in {"run_migration", "teams migrated"} => sql.hashes = {}
  /\ sql.pc = "completed" =>
       /\ \A i \in 1..Len(sql.mongo_teams) :
            \E t \in sql.teams :
              /\ t.id = sql.mongo_teams[i].id
              /\ t = SqlTeam(sql.mongo_teams[i])
       /\ \A i \in 1..Len(sql.mongo_hashes) :
            \E h \in sql.hashes :
              /\ h.id = sql.mongo_hashes[i].id
              /\ h = SqlHash(sql.mongo_hashes[i])
       /\ \A h \in sql.hashes : \E t \in sql.teams : t.id = h.team_id

\* The summary of a stored team over the hash store given, and its fields
\* that count tokens and lots.
TeamSummary(t, store) == Summary(t, teams[t], ListHashesIn(store, t))

LotFields(s) ==
  <<s.rub_tokens, s.usdt_tokens, s.rub_lots, s.usdt_lots, s.total_lots>>

NoneLower(a, b) == \A i \in DOMAIN a : a[i] <= b[i]

\* C29: for a team with positive prices, creating a hash (positive amount,
\* positive rate if RUB) never decreases rub_tokens, usdt_tokens, rub_lots,
\* usdt_lots or total_lots of its summary, and deleting a hash never
\* increases any of them.
C29_LotsMonotoneInHashes ==
  [][(hashes' # hashes /\ teams' = teams) =>
       /\ (\E h \in 1..MaxHashes, u \in TeamIds, cur \in Currencies,
              amt \in StoreAmounts, rate \in StoreRates :
             CreateHash(h, u, cur, amt, rate))
            => \A t \in DOMAIN teams :
                 (teams[t].rub_price_per_lot > 0
                    /\ teams[t].usdt_price_per_lot > 0)
                   => NoneLower(LotFields(TeamSummary(t, hashes)),
                                LotFields(TeamSummary(t, hashes')))
       /\ (\E h \in 1..MaxHashes : DeleteHash(h))
            => \A t \in DOMAIN teams :
                 (teams[t].rub_price_per_lot > 0
                    /\ teams[t].usdt_price_per_lot > 0)
                   => NoneLower(LotFields(TeamSummary(t, hashes')),
                                LotFields(TeamSummary(t, hashes)))]_vars

\* A team that holds a whole lot after a hash was created for it and another
\* hash was deleted.
C29_Witness ==
  \E t \in DOMAIN teams :
    /\ teams[t].rub_price_per_lot > 0 /\ teams[t].usdt_price_per_lot > 0
    /\ HashIdsOf(t) # {}
    /\ TeamSummary(t, hashes).total_lots > 0
    /\ issued.hashes \ DOMAIN hashes # {}
    /\ response = WriteResponse("ok")

\* The hashes TeamDetail displays, as the engine takes them.
DisplayedHashes(d) == [i \in DOMAIN d.hashes |-> d.hashes[i].hash]

\* The hash with this id is in the displayed list.
Displays(d, h) == \E i \in DOMAIN d.hashes : d.hashes[i].id = h

\* C25: when handleDeleteHash ends with the failure alert, the hash still
\* exists on the server and is still in the displayed list; when it ends
\* with the hash removed from the displayed list, the displayed summary is
\* the summary of the remaining displayed hashes.
C25_AlertOnlyWhenHashNotDeleted ==
  [][(detail.pc \in {"delete", "refresh"} /\ detail'.pc = "idle") =>
       /\ detail'.alert = DeleteAlert =>
            /\ detail.deleting \in DOMAIN hashes'
            /\ Displays(detail', detail.deleting)
       /\ ~Displays(detail', detail.deleting) =>
            detail'.summary
              = <<Summary(detail.id, detail.team[1], DisplayedHashes(detail'))>>]_vars

\* C28: in edit mode of the team form the answer of the initial load never
\* overwrites what the user has typed: a field that holds a typed value when
\* fetchTeamData completes (the form starts with every field empty) holds the
\* same value afterwards.
C28_LoadKeepsTypedValues ==
  [][(teamForm.pc = "loading" /\ teamForm'.pc = "idle") =>
       /\ teamForm.formData.name # ""
            => teamForm'.formData.name = teamForm.formData.name
       /\ \A f \in {"rub_price_per_lot", "usdt_price_per_lot"} :
            teamForm.formData[f] # Str(<<>>)
              => teamForm'.formData[f] = teamForm.formData[f]]_vars

\* C27: at most one save request per form is in flight: while a save request
\* of the team form or of the hash form is in flight loading is true (the
\* submit button is disabled), and a submission, sending a request or
\* rejected by validation, starts only when no save request of the form is
\* in flight.
C27_OneSaveRequestInFlight ==
  [][/\ (teamForm'.pc \in {"idle", "loading", "saving"}
           /\ teamForm'.request # <<>>) => teamForm'.loading
     /\ (hashForm'.pc \in {"idle", "loading", "saving"}
           /\ hashForm'.request # <<>>) => hashForm'.loading
     /\ TeamFormSubmit => (teamForm.request = <<>> /\ ~teamForm.loading)
     /\ HashFormSubmit => (hashForm.request = <<>> /\ ~hashForm.loading)]_vars

\* An update request of the team form in flight, the button disabled.
C27_Witness ==
  /\ teamForm.pc = "saving" /\ teamForm.loading
  /\ teamForm.request # <<>> /\ teamForm.request[1].method = "PUT"
  /\ hashForm.pc = "unmounted"

\* C21: a valid submission of the team form or of the hash form sends exactly
\* one write request, PUT to the id of the route in edit mode and POST
\* otherwise; when the request succeeds the form navigates away (to the team
\* list, or to the page of the hash's team), and when it fails the form stays,
\* shows an error, keeps the field values and does not navigate.
C21_OneWriteAndNavigateIffSuccess ==
  [][/\ (TeamFormSubmit /\ TeamFormInvalid(teamForm.formData) = NoError) =>
          /\ teamForm'.request
               = <<[method |-> IF teamForm.id # "" THEN "PUT" ELSE "POST",
                    id |-> teamForm.id,
                    data |-> TeamData(teamForm.formData)]>>
          /\ ~teamForm'.navigated
     /\ (HashFormSubmit /\ HashFormInvalid(hashForm.formData) = NoError) =>
          /\ hashForm'.request
               = <<[method |-> IF hashForm.hashId # 0 THEN "PUT" ELSE "POST",
                    id |-> hashForm.hashId,
                    data |-> HashData(hashForm.formData)]>>
          /\ hashForm'.navigated = ""
     /\ TeamFormSaveAnswer(Delivered) =>
          (teamForm'.pc = "left" /\ teamForm'.navigated)
     /\ TeamFormSaveAnswer(Unreachable) =>
          /\ teamForm'.pc = "idle" /\ ~teamForm'.navigated
          /\ teamForm'.error = TeamSaveError
          /\ teamForm'.formData = teamForm.formData
     /\ HashFormSaveAnswer(Delivered) =>
          /\ hashForm'.pc = "left"
          /\ hashForm'.navigated = hashForm.request[1].data.team_id
          /\ hashForm'.navigated # ""
     /\ HashFormSaveAnswer(Unreachable) =>
          /\ hashForm'.pc = "idle" /\ hashForm'.navigated = ""
          /\ hashForm'.error = HashSaveError
          /\ hashForm'.formData = hashForm.formData]_vars

\* The hash form in edit mode after an update request that failed: still on
\* the form, with the error and with valid field values.
C21_Witness ==
  /\ hashForm.pc = "idle" /\ hashForm.hashId # 0
  /\ hashForm.error = HashSaveError
  /\ hashForm.navigated = ""
  /\ HashFormInvalid(hashForm.formData) = NoError
  /\ hashForm.formData.currency = "RUB"

\* ------------------------------------------------------------------ Teams
\* The list of teams with its search box and its delete buttons.
\* teamsView.teams is the list on display (the ids of its teams),
\* teamsView.requests the list requests issued so far, in the order of their
\* issue, each pending, failed or answered with the teams of its answer, and
\* teamsView.deletes the DELETE requests that were sent and not yet answered,
\* each with the list its handler was created with.
MaxListRequests == 3
MaxDeletes == 2

\* The names of the stored teams, and what is typed into the search box.
TeamName(t) == IF t = "t1" THEN <<"a">> ELSE <<"a", "b">>
SearchInputs == {<<>>, <<"b">>}

FetchError == "could not load the teams"
SearchError == "error when searching the teams"
DeleteTeamError == "could not delete the team"

\* GET /api/teams[?search=]: the stored teams the search keeps.
TeamsAnswer(search) ==
  LET ids == SelectSeq(<<"t1", "t2">>, LAMBDA t : t \in DOMAIN teams)
      names == [i \in DOMAIN ids |-> TeamName(ids[i])]
      found == GetTeamsSql(names, search)
  IN {ids[found[i]] : i \in DOMAIN found}

ListRequest(kind, search) ==
  [kind |-> kind, search |-> search, state |-> "pending", teams |-> {}]

PendingLists == {n \in DOMAIN teamsView.requests : teamsView.requests[n].state = "pending"}

\* useState of Teams; the effect on [] then calls fetchTeams, which sets
\* loading and sends GET /api/teams.
TeamsMount ==
  /\ teamsView.pc = "unmounted"
  /\ teamsView' = [pc |-> "mounted", teams |-> {}, loading |-> TRUE,
                   error |-> NoError, searchTerm |-> <<>>,
                   requests |-> <<ListRequest("fetch", <<>>)>>,
                   deletes |-> <<>>]
  /\ UNCHANGED <<teams, hashes, response, issued, detail, calc, teamForm, hashForm, sideVars>>

\* onChange of the search box
TeamsSetSearchTerm(term) ==
  /\ teamsView.pc = "mounted"
  /\ term # teamsView.searchTerm
  /\ teamsView' = [teamsView EXCEPT !.searchTerm = term]
  /\ UNCHANGED <<teams, hashes, response, issued, detail, calc, teamForm, hashForm, sideVars>>

\* handleSearch, by the button or the Enter key, neither of them disabled
\* while a request is pending: sets loading and sends
\* GET /api/teams?search=<searchTerm>.
TeamsHandleSearch ==
  /\ teamsView.pc = "mounted"
  /\ Len(teamsView.requests) < MaxListRequests
  /\ teamsView' = [teamsView EXCEPT
                     !.loading = TRUE,
                     !.requests = Append(@, ListRequest("search", <<teamsView.searchTerm>>))]
  /\ UNCHANGED <<teams, hashes, response, issued, detail, calc, teamForm, hashForm, sideVars>>

\* A list answer that leaves the spinner on when the request failed.
TeamsListAnswerKeepsLoading(n, net) ==
  /\ teamsView.pc = "mounted"
  /\ n \in PendingLists
  /\ IF net = Delivered
       THEN teamsView' = [teamsView EXCEPT
                            !.teams = TeamsAnswer(teamsView.requests[n].search),
                            !.error = NoError,
                            !.loading = FALSE,
                            !.requests[n].state = "answered",
                            !.requests[n].teams = TeamsAnswer(teamsView.requests[n].search)]
       ELSE teamsView' = [teamsView EXCEPT
                            !.error = IF teamsView.requests[n].kind = "fetch"
                                        THEN FetchError ELSE SearchError,
                            !.requests[n].state = "failed"]
  /\ UNCHANGED <<teams, hashes, response, issued, detail, calc, teamForm, hashForm, sideVars>>

\* fetchTeams and handleSearch after the await: the answer to list request
\* n, whichever of the pending requests it is.
TeamsListAnswer(n, net) ==
  /\ teamsView.pc = "mounted"
  /\ n \in PendingLists
  /\ IF net = Delivered
       THEN teamsView' = [teamsView EXCEPT
                            !.teams = TeamsAnswer(teamsView.requests[n].search),
                            !.error = NoError,
                            !.loading = FALSE,
                            !.requests[n].state = "answered",
                            !.requests[n].teams = TeamsAnswer(teamsView.requests[n].search)]
       ELSE teamsView' = [teamsView EXCEPT
                            !.error = IF teamsView.requests[n].kind = "fetch"
                                        THEN FetchError ELSE SearchError,
                            !.loading = FALSE,
                            !.requests[n].state = "failed"]
  /\ UNCHANGED <<teams, hashes, response, issued, detail, calc, teamForm, hashForm, sideVars>>

\* The cards with their delete buttons are on display.
TeamsListed ==
  /\ teamsView.pc = "mounted"
  /\ ~teamsView.loading
  /\ teamsView.error = NoError

\* handleDelete up to the await: window.confirm, and when confirmed
\* DELETE /api/teams/{id}; the handler keeps the list of the render it was
\* created in.
TeamsHandleDelete(id, confirmed) ==
  /\ TeamsListed
  /\ id \in teamsView.teams
  /\ Len(teamsView.deletes) < MaxDeletes
  /\ IF confirmed
       THEN teamsView' = [teamsView EXCEPT
                            !.deletes = Append(@, [id |-> id, teams |-> teamsView.teams])]
       ELSE teamsView' = teamsView
  /\ UNCHANGED <<teams, hashes, response, issued, detail, calc, teamForm, hashForm, sideVars>>

Without(s, i) == [j \in 1..(Len(s) - 1) |-> IF j < i THEN s[j] ELSE s[j + 1]]

\* A delete answer that takes the team off the list whatever the outcome.
TeamsDeleteAnswerAlwaysRemoves(i, net) ==
  /\ teamsView.pc = "mounted"
  /\ i \in DOMAIN teamsView.deletes
  /\ LET d == teamsView.deletes[i]
     IN /\ IF net # Unreachable /\ d.id \in DOMAIN teams
             THEN /\ teams' = [x \in DOMAIN teams \ {d.id} |-> teams[x]]
                  /\ hashes' = [h \in DOMAIN hashes \ HashIdsOf(d.id) |-> hashes[h]]
             ELSE UNCHANGED <<teams, hashes>>
        /\ teamsView' = [teamsView EXCEPT
                           !.teams = d.teams \ {d.id},
                           !.deletes = Without(@, i)]
  /\ UNCHANGED <<response, issued, detail, calc, teamForm, hashForm, sideVars>>

\* handleDelete after the await: the answer to the i-th pending DELETE.  The
\* server deletes the team and its hashes unless the request never reached
\* it; the promise resolves when the answer is delivered and the team was
\* there (404 otherwise).
TeamsDeleteAnswer(i, net) ==
  /\ teamsView.pc = "mounted"
  /\ i \in DOMAIN teamsView.deletes
  /\ LET d == teamsView.deletes[i]
     IN /\ IF net # Unreachable /\ d.id \in DOMAIN teams
             THEN /\ teams' = [x \in DOMAIN teams \ {d.id} |-> teams[x]]
                  /\ hashes' = [h \in DOMAIN hashes \ HashIdsOf(d.id) |-> hashes[h]]
             ELSE UNCHANGED <<teams, hashes>>
        /\ IF net = Delivered /\ d.id \in DOMAIN teams
             THEN teamsView' = [teamsView EXCEPT
                                  !.teams = d.teams \ {d.id},
                                  !.deletes = Without(@, i)]
             ELSE teamsView' = [teamsView EXCEPT
                                  !.error = DeleteTeamError,
                                  !.deletes = Without(@, i)]
  /\ UNCHANGED <<response, issued, detail, calc, teamForm, hashForm, sideVars>>

\* Two stored teams with any stored hashes of one kind; the view is not
\* mounted.
InitTeamsView ==
  /\ teams = [t \in TeamIds |-> TeamRecord(1, MaxPrice)]
  /\ hashes \in {hs \in HashStores :
                   \A h \in DOMAIN hs : hs[h] = HashRecord(hs[h].team_id, "RUB", 1, MaxRate)}
  /\ response = NoResponse
  /\ issued = [teams |-> DOMAIN teams, hashes |-> DOMAIN hashes]
  /\ NoClients

NextTeamsView ==
  \/ TeamsMount
  \/ \E term \in SearchInputs : TeamsSetSearchTerm(term)
  \/ TeamsHandleSearch
  \/ \E n \in 1..MaxListRequests, net \in {Delivered, Unreachable} : TeamsListAnswer(n, net)
  \/ \E id \in TeamIds, confirmed \in BOOLEAN : TeamsHandleDelete(id, confirmed)
  \/ \E i \in 1..MaxDeletes, net \in {Delivered, Unreachable, AnswerLost} :
       TeamsDeleteAnswer(i, net)

SpecTeamsView == InitTeamsView /\ [][NextTeamsView]_vars

\* C23: Teams.handleDelete takes a team off the displayed list only when the
\* user confirmed and the DELETE request succeeded.  When the user declines,
\* no request is sent and the view (list and error included) stays as it
\* is; a confirmed delete changes nothing on display before its answer; when
\* the request fails the list is unchanged and the error is set; when it
\* succeeds the team is neither on display nor in the store.
C23_DeleteOnlyWhenConfirmedAndSucceeded ==
  [][/\ \A id \in TeamIds :
          TeamsHandleDelete(id, FALSE) => teamsView' = teamsView
     /\ \A id \in TeamIds :
          TeamsHandleDelete(id, TRUE) =>
            /\ teamsView'.teams = teamsView.teams
            /\ teamsView'.error = teamsView.error
            /\ Len(teamsView'.deletes) = Len(teamsView.deletes) + 1
     /\ \A i \in 1..MaxDeletes, net \in {Delivered, Unreachable, AnswerLost} :
          TeamsDeleteAnswer(i, net) =>
            IF net = Delivered /\ teamsView.deletes[i].id \in DOMAIN teams
              THEN /\ teamsView.deletes[i].id \notin teamsView'.teams
                   /\ teamsView.deletes[i].id \notin DOMAIN teams'
                   /\ teamsView'.error = teamsView.error
              ELSE /\ teamsView'.teams = teamsView.teams
                   /\ teamsView'.error = DeleteTeamError]_vars

\* The delete of t1 succeeded and took it off the list; the delete of t2
\* failed, so t2 is still listed and stored, and the error is set.
C23_Witness ==
  /\ teamsView.pc = "mounted"
  /\ Len(teamsView.requests) = 1
  /\ teamsView.teams = {"t2"}
  /\ DOMAIN teams = {"t2"}
  /\ teamsView.error = DeleteTeamError
  /\ teamsView.deletes = <<>>

\* C24: once the deletions started from the loaded list are all answered
\* successfully, the displayed list is the loaded list minus the deleted
\* teams: no deleted team is on display, in whatever order the answers
\* arrived.  (Only the list request of the mount was issued; with no error
\* set, no deletion has failed.)
C24_DisplayedIsLoadedMinusDeleted ==
  (/\ teamsView.pc = "mounted"
   /\ Len(teamsView.requests) = 1
   /\ teamsView.requests[1].state = "answered"
   /\ teamsView.deletes = <<>>
   /\ teamsView.error = NoError)
  => teamsView.teams = teamsView.requests[1].teams \cap DOMAIN teams

\* C26: once all the list requests of the Teams view are answered, the
\* displayed teams are the answer to the request issued last, in whatever
\* order the answers arrived.  (No team was deleted meanwhile, so every
\* request was answered from the same stored teams.)
C26_DisplayedIsLastRequested ==
  (/\ teamsView.pc = "mounted"
   /\ PendingLists = {}
   /\ teamsView.deletes = <<>>
   /\ DOMAIN teams = TeamIds
   /\ teamsView.error # DeleteTeamError
   /\ teamsView.requests[Len(teamsView.requests)].state = "answered")
  => teamsView.teams = teamsView.requests[Len(teamsView.requests)].teams

\* ------------------------------------------------------------------ all views
\* The router shows one view at a time.  Every request a view has sent is
\* answered or fails in the end: the promise of axios settles.
Unmounted(view) == view.pc = "unmounted"

\* Two stored teams and one hash; no view is mounted.
InitViews ==
  /\ teams = [t \in TeamIds |-> TeamRecord(1, MaxPrice)]
  /\ hashes = <<HashRecord("t1", "RUB", 1, MaxRate)>>
  /\ response = NoResponse
  /\ issued = [teams |-> DOMAIN teams, hashes |-> DOMAIN hashes]
  /\ NoClients

NextViews ==
  \/ /\ Unmounted(detail) /\ Unmounted(teamForm) /\ Unmounted(hashForm)
     /\ Unmounted(teamsView)
     /\ NextCalc
  \/ /\ Unmounted(detail) /\ Unmounted(teamForm) /\ Unmounted(hashForm)
     /\ Unmounted(calc)
     /\ NextTeamsView
  \/ /\ Unmounted(calc) /\ Unmounted(teamForm) /\ Unmounted(hashForm)
     /\ Unmounted(teamsView)
     /\ NextDetailAlone
  \/ /\ Unmounted(detail) /\ Unmounted(calc) /\ Unmounted(hashForm)
     /\ Unmounted(teamsView)
     /\ NextTeamForm
  \/ /\ Unmounted(detail) /\ Unmounted(calc) /\ Unmounted(teamForm)
     /\ Unmounted(teamsView)
     /\ NextHashForm

\* The code after an await runs: the answer to a pending request arrives.
AnswerArrives ==
  \/ \E net \in {Delivered, Unreachable} : CalcAnswer(net)
  \/ \E n \in 1..MaxListRequests, net \in {Delivered, Unreachable} : TeamsListAnswer(n, net)
  \/ \E i \in 1..MaxDeletes, net \in {Delivered, Unreachable, AnswerLost} :
       TeamsDeleteAnswer(i, net)
  \/ \E net \in {Delivered, Unreachable} : DetailTeamAnswer(net)
  \/ \E net \in {Delivered, Unreachable} : DetailHashesAnswer(net)
  \/ \E net \in {Delivered, Unreachable} : DetailSummaryAnswer(net)
  \/ \E net \in {Delivered, Unreachable, AnswerLost} : DetailDeleteAnswer(net)
  \/ \E net \in {Delivered, Unreachable} : DetailRefreshAnswer(net)
  \/ \E net \in {Delivered, Unreachable} : TeamFormLoadAnswer(net)
  \/ \E net \in {Delivered, Unreachable} : TeamFormSaveAnswer(net)
  \/ \E net \in {Delivered, Unreachable} : HashFormTeamsAnswer(net)
  \/ \E net \in {Delivered, Unreachable} : HashFormLoadAnswer(net)
  \/ \E net \in {Delivered, Unreachable} : HashFormSaveAnswer(net)

SpecViews == InitViews /\ [][NextViews]_vars /\ WF_vars(AnswerArrives)

\* A view shows its loading state; a request of it that set loading is
\* pending.
Loading(view) == view.pc # "unmounted" /\ view.loading

LoadPending ==
  \/ calc.pc = "fetching"
  \/ teamsView.pc = "mounted" /\ PendingLists # {}
  \/ detail.pc \in {"team", "hashes", "summary"}
  \/ teamForm.pc \in {"loading", "saving"}
  \/ hashForm.pc \in {"loading", "saving"}

\* One view is mounted at a time: the view on display is loading.
AnyLoading ==
  \/ Loading(calc) \/ Loading(teamsView) \/ Loading(detail)
  \/ Loading(teamForm) \/ Loading(hashForm)

\* C22: every load or submit of a view that sets loading = true is followed
\* by loading = false once its request is answered or fails (a submission
\* rejected by validation ends with loading = false at once): a view that is
\* loading stops loading in the end, and no view is loading when none of its
\* load or submit requests is pending.
C22_LoadingEnds ==
  /\ [](~LoadPending => ~AnyLoading)
  /\ AnyLoading ~> ~AnyLoading

\* A search failed while the team list was loading, and the loading state
\* has ended with every list request answered.
C22_Witness ==
  /\ teamsView.pc = "mounted"
  /\ Len(teamsView.requests) = 2
  /\ teamsView.requests[2].state = "failed"
  /\ PendingLists = {}
  /\ ~teamsView.loading

====
